---- MODULE Spec2Model ----
(***************************************************************************)
(* Smart Glasses ISL recognition: the per-frame decision logic of the two  *)
(* front-ends, src/src/inference.py (webcam, with the 'R'/'Q' keys) and    *)
(* src/src/deploy_pi.py (Raspberry Pi, headless).                          *)
(*                                                                         *)
(* Time is counted in whole ticks (one tick = one second of time.time()),  *)
(* confidences in whole percent (0.7 = 70).  The camera, the landmark      *)
(* detector and the classifier are the environment: each frame they        *)
(* supply "no hand" or an arg-max label with its confidence.               *)
(***************************************************************************)
EXTENDS Integers, Sequences, FiniteSets, TLC

\* ---------------------------------------------------------------- bounds
MaxStabilityFrames == 3
MaxThreads == 2
MaxCooldown == 2
MaxStep == 1
Horizon == 3

\* the clock at start-up: time.time() is far larger than any cooldown
StartTime == MaxCooldown + 1
MaxTime == StartTime + Horizon

\* the closed set of sign classes (labels.npy) and Python's None
Labels == {"A", "B"}
None == "None"

\* confidences the classifier reports, in percent, and the configured threshold
Confidences == {65, 70, 90}
Thresholds == {70, 90}

\* get_sign_text called on its own, on any array of percentages for the labels
Probabilities == {0, 10, 30, 65, 70, 90, 100}

\* The classifier reports np.float32 values; the threshold is the Python float
\* (a double) of the configuration, which need not be a float32 value: 0.7
\* is none, np.float32(0.7) = 0.699999988 is the float32 value next to it.
\* The model keeps the order of the numbers, not their distances: the float32
\* values are the Confidences and the Probabilities, the Thresholds are
\* doubles that are float32 values as well, and an InexactThreshold is a
\* double between two float32 values, nearer to the one below it (71) or to
\* the one above it (89).
Float32Values == Confidences \cup Probabilities
InexactThresholds == {71, 89}

Distance(x, y) == IF x >= y THEN x - y ELSE y - x

\* np.float32(x) for every percentage x: the float32 value nearest to x
Float32Table ==
    [x \in 0..100 |->
        CHOOSE v \in Float32Values : \A w \in Float32Values : Distance(v, x) <= Distance(w, x)]

Float32(x) == Float32Table[x]

\* float(x) of an np.float32: every float32 value is a double, so the
\* conversion is exact and the number is kept
Float(x) == x

\* NumPy before 2.0 compares an np.float32 scalar and a Python float as
\* float64; NumPy 2 (NEP 50) converts the Python float to float32 first.  The
\* repository does not pin the version.
NumpyBuilds == {"legacy", "nep50"}

\* x >= y with x an np.float32 and y a Python float
Float32GreaterEqual(build, x, y) ==
    IF build = "nep50" THEN x >= Float32(y) ELSE x >= y

Programs == {"inference", "deploy_pi"}
Keys == {"none", "r", "q"}
\* "no announcement yet" in the log of announcement times
NoTime == 0 - 1

VARIABLES
    program,                 \* which front-end is running
    numpy,                   \* how the installed NumPy compares np.float32 with a Python float
    pc,                      \* "frame": about to read a frame; "key": about to poll the key; "done"
    confidence_threshold,    \* config
    stability_frames,        \* config
    cooldown_seconds,        \* config
    stability_buffer,        \* the stability window
    last_announced_sign,
    last_announcement_time,
    clock,                   \* the value time.time() returns
    frame_count,             \* deploy_pi.py: the frames read, counted modulo FpsEvery
    fps_start,               \* deploy_pi.py: the clock reading the FPS is measured from
    ev,                      \* history: what the last step read and did
    run,                     \* history: the current run of consecutive qualifying frames
    last_spoken_at,          \* history: per sign, the time of its latest announcement
                             \* (kept under SpecLog only)
    last_event,              \* history: latest of {announcement of a sign, reset}
    script,                  \* history: the end-to-end scenario, while the frames follow it
    raw,                     \* normalize_landmarks: the argument
    normalized,              \* normalize_landmarks: the outcome, NotCalled before the call
    caller_array,            \* normalize_landmarks: the array the caller passed, as the call leaves it
    detected,                \* extract_landmarks: results.multi_hand_landmarks, a sequence of hands
    extracted,               \* extract_landmarks: the outcome
    prediction,              \* get_sign_text: the probability array, in percent
    sign_text,               \* get_sign_text: the outcome
    twin,                    \* the deploy_pi.py loop fed the frames of the inference.py loop
    span,                    \* history: frames and announcements counted from some frame on
    tts,                     \* the TTSEngine object and its speak threads
    inference_process,       \* webapp/app.py: the Popen object of the global, NoProcess for None
    collection_process,
    training_process,
    app_state,               \* webapp/app.py: the global dictionary
    processes,               \* the child processes of the web app, per kind
    monitors,                \* the monitor_inference threads
    handler,                 \* the request the web server is handling
    response                 \* history: the latest response, and what its handler met and did

vars == <<program, numpy, pc, confidence_threshold, stability_frames, cooldown_seconds,
          stability_buffer, last_announced_sign, last_announcement_time, clock,
          frame_count, fps_start, ev, run, last_spoken_at, last_event, script, raw, normalized,
          caller_array, detected, extracted, prediction, sign_text, twin, span, tts,
          inference_process, collection_process, training_process, app_state,
          processes, monitors, handler, response>>

\* the variables of the frame loop other than the configuration and pc
loop_state == <<stability_buffer, last_announced_sign, last_announcement_time, clock,
                frame_count, fps_start, ev, run, last_spoken_at, last_event, script, twin, span, tts>>

\* the variables of the functions called on their own
calls == <<raw, normalized, caller_array, detected, extracted, prediction, sign_text>>

config == <<program, numpy, confidence_threshold, stability_frames, cooldown_seconds>>

\* No np.float32 is compared with a Python float in the specification, so
\* the NumPy builds run alike and one of them is taken.
NumpyNotCompared == numpy = "legacy"

\* Every threshold of the specification is a float32 value, which np.float32
\* leaves as it is: the NumPy builds compare alike and one of them is taken.
NumpyAlike == numpy = "legacy"

\* the variables of the web app
webapp == <<inference_process, collection_process, training_process, app_state,
            processes, monitors, handler, response>>

\* ------------------------------------------------------- the decision logic

\* a slip: the window is never trimmed
TrimBuffer_KeepAll(buffer, n) == buffer

\* a slip: the newest label is dropped instead of the oldest
TrimBuffer_DropNewest(buffer, n) ==
    IF Len(buffer) > n THEN SubSeq(buffer, 1, n) ELSE buffer

\* if len(stability_buffer) > stability_frames: stability_buffer.pop(0)
TrimBuffer(buffer, n) ==
    IF Len(buffer) > n THEN Tail(buffer) ELSE buffer

\* a slip: the length test is left out
BufferStable_NoLength(buffer, predicted_sign, n) ==
    \A i \in 1..Len(buffer) : buffer[i] = predicted_sign

\* a slip: only the length is tested
BufferStable_LengthOnly(buffer, predicted_sign, n) ==
    Len(buffer) = n

\* a slip: the window counts as stable one frame early
BufferStable_OneShort(buffer, predicted_sign, n) ==
    /\ Len(buffer) >= n - 1
    /\ \A i \in 1..Len(buffer) : buffer[i] = predicted_sign

\* len(stability_buffer) == stability_frames and all(s == predicted_sign for s in stability_buffer)
BufferStable(buffer, predicted_sign, n) ==
    /\ Len(buffer) = n
    /\ \A i \in 1..Len(buffer) : buffer[i] = predicted_sign

\* a slip: >= where the code has >
CooldownPassed_Inclusive(predicted_sign, sign, current_time, time, cooldown) ==
    \/ predicted_sign # sign
    \/ (current_time - time) >= cooldown

\* a slip: the sign is not compared, and >= stands where the code has >
CooldownPassed_AnySign(predicted_sign, sign, current_time, time, cooldown) ==
    (current_time - time) >= cooldown

\* a slip: a sign is announced again only after another sign
CooldownPassed_SignOnly(predicted_sign, sign, current_time, time, cooldown) ==
    predicted_sign # sign

\* a slip: the cooldown is applied to every announcement, the first included
CooldownPassed_TimeOnly(predicted_sign, sign, current_time, time, cooldown) ==
    (current_time - time) > cooldown

\* predicted_sign != last_announced_sign or (current_time - last_announcement_time) > cooldown_seconds
CooldownPassed(predicted_sign, sign, current_time, time, cooldown) ==
    \/ predicted_sign # sign
    \/ (current_time - time) > cooldown

\* a slip: a suppressed repeat clears the window
RecognitionStep_ClearWhenSuppressed(buffer, sign, time, hand, label, confidence, current_time) ==
    IF hand
    THEN IF Float32GreaterEqual(numpy, confidence, confidence_threshold)
         THEN LET window == TrimBuffer(Append(buffer, label), stability_frames)
              IN  IF BufferStable(window, label, stability_frames)
                  THEN IF CooldownPassed(label, sign, current_time, time, cooldown_seconds)
                       THEN [buffer |-> <<>>, sign |-> label, time |-> current_time,
                             spoke |-> label, window |-> window, gate |-> TRUE]
                       ELSE [buffer |-> <<>>, sign |-> sign, time |-> time,
                             spoke |-> None, window |-> window, gate |-> TRUE]
                  ELSE [buffer |-> window, sign |-> sign, time |-> time,
                        spoke |-> None, window |-> window, gate |-> FALSE]
         ELSE [buffer |-> <<>>, sign |-> sign, time |-> time,
               spoke |-> None, window |-> buffer, gate |-> FALSE]
    ELSE [buffer |-> <<>>, sign |-> sign, time |-> time,
          spoke |-> None, window |-> buffer, gate |-> FALSE]

\* a slip: a low-confidence frame leaves the window alone
RecognitionStep_KeepOnLowConfidence(buffer, sign, time, hand, label, confidence, current_time) ==
    IF hand
    THEN IF Float32GreaterEqual(numpy, confidence, confidence_threshold)
         THEN LET window == TrimBuffer(Append(buffer, label), stability_frames)
              IN  IF BufferStable(window, label, stability_frames)
                  THEN IF CooldownPassed(label, sign, current_time, time, cooldown_seconds)
                       THEN [buffer |-> <<>>, sign |-> label, time |-> current_time,
                             spoke |-> label, window |-> window, gate |-> TRUE]
                       ELSE [buffer |-> window, sign |-> sign, time |-> time,
                             spoke |-> None, window |-> window, gate |-> TRUE]
                  ELSE [buffer |-> window, sign |-> sign, time |-> time,
                        spoke |-> None, window |-> window, gate |-> FALSE]
         ELSE [buffer |-> buffer, sign |-> sign, time |-> time,
               spoke |-> None, window |-> buffer, gate |-> FALSE]
    ELSE [buffer |-> <<>>, sign |-> sign, time |-> time,
          spoke |-> None, window |-> buffer, gate |-> FALSE]

\* a slip: the window is not cleared after an announcement
RecognitionStep_KeepAfterAnnouncement(buffer, sign, time, hand, label, confidence, current_time) ==
    IF hand
    THEN IF Float32GreaterEqual(numpy, confidence, confidence_threshold)
         THEN LET window == TrimBuffer(Append(buffer, label), stability_frames)
              IN  IF BufferStable(window, label, stability_frames)
                  THEN IF CooldownPassed(label, sign, current_time, time, cooldown_seconds)
                       THEN [buffer |-> window, sign |-> label, time |-> current_time,
                             spoke |-> label, window |-> window, gate |-> TRUE]
                       ELSE [buffer |-> window, sign |-> sign, time |-> time,
                             spoke |-> None, window |-> window, gate |-> TRUE]
                  ELSE [buffer |-> window, sign |-> sign, time |-> time,
                        spoke |-> None, window |-> window, gate |-> FALSE]
         ELSE [buffer |-> <<>>, sign |-> sign, time |-> time,
               spoke |-> None, window |-> buffer, gate |-> FALSE]
    ELSE [buffer |-> <<>>, sign |-> sign, time |-> time,
          spoke |-> None, window |-> buffer, gate |-> FALSE]

\* a slip: a suppressed repeat restarts the cooldown
RecognitionStep_TouchTime(buffer, sign, time, hand, label, confidence, current_time) ==
    IF hand
    THEN IF Float32GreaterEqual(numpy, confidence, confidence_threshold)
         THEN LET window == TrimBuffer(Append(buffer, label), stability_frames)
              IN  IF BufferStable(window, label, stability_frames)
                  THEN IF CooldownPassed(label, sign, current_time, time, cooldown_seconds)
                       THEN [buffer |-> <<>>, sign |-> label, time |-> current_time,
                             spoke |-> label, window |-> window, gate |-> TRUE]
                       ELSE [buffer |-> window, sign |-> sign, time |-> current_time,
                             spoke |-> None, window |-> window, gate |-> TRUE]
                  ELSE [buffer |-> window, sign |-> sign, time |-> time,
                        spoke |-> None, window |-> window, gate |-> FALSE]
         ELSE [buffer |-> <<>>, sign |-> sign, time |-> time,
               spoke |-> None, window |-> buffer, gate |-> FALSE]
    ELSE [buffer |-> <<>>, sign |-> sign, time |-> time,
          spoke |-> None, window |-> buffer, gate |-> FALSE]

\* a slip: the threshold is exclusive
RecognitionStep_StrictThreshold(buffer, sign, time, hand, label, confidence, current_time) ==
    IF hand
    THEN IF confidence > confidence_threshold
         THEN LET window == TrimBuffer(Append(buffer, label), stability_frames)
              IN  IF BufferStable(window, label, stability_frames)
                  THEN IF CooldownPassed(label, sign, current_time, time, cooldown_seconds)
                       THEN [buffer |-> <<>>, sign |-> label, time |-> current_time,
                             spoke |-> label, window |-> window, gate |-> TRUE]
                       ELSE [buffer |-> window, sign |-> sign, time |-> time,
                             spoke |-> None, window |-> window, gate |-> TRUE]
                  ELSE [buffer |-> window, sign |-> sign, time |-> time,
                        spoke |-> None, window |-> window, gate |-> FALSE]
         ELSE [buffer |-> <<>>, sign |-> sign, time |-> time,
               spoke |-> None, window |-> buffer, gate |-> FALSE]
    ELSE [buffer |-> <<>>, sign |-> sign, time |-> time,
          spoke |-> None, window |-> buffer, gate |-> FALSE]

\* inference.py: one pass through the recognition part of the loop body.
\* hand: landmarks is not None; label, confidence: the arg-max class and its
\* probability; current_time: time.time().  The result holds the three
\* recognition variables after the pass, the text handed to tts.speak (None if
\* none), the buffer as the stability test saw it (the buffer before the pass
\* when the frame did not qualify), and whether the cooldown test was evaluated.
RecognitionStep(buffer, sign, time, hand, label, confidence, current_time) ==
    IF hand
    THEN IF Float32GreaterEqual(numpy, confidence, confidence_threshold)
         THEN LET window == TrimBuffer(Append(buffer, label), stability_frames)
              IN  IF BufferStable(window, label, stability_frames)
                  THEN IF CooldownPassed(label, sign, current_time, time, cooldown_seconds)
                       THEN [buffer |-> <<>>, sign |-> label, time |-> current_time,
                             spoke |-> label, window |-> window, gate |-> TRUE]
                       ELSE [buffer |-> window, sign |-> sign, time |-> time,
                             spoke |-> None, window |-> window, gate |-> TRUE]
                  ELSE [buffer |-> window, sign |-> sign, time |-> time,
                        spoke |-> None, window |-> window, gate |-> FALSE]
         ELSE [buffer |-> <<>>, sign |-> sign, time |-> time,
               spoke |-> None, window |-> buffer, gate |-> FALSE]
    ELSE [buffer |-> <<>>, sign |-> sign, time |-> time,
          spoke |-> None, window |-> buffer, gate |-> FALSE]

\* deploy_pi.py: the same pass in the headless loop
DeployPiRecognitionStep(buffer, sign, time, hand, label, confidence, current_time) ==
    IF hand
    THEN IF Float(confidence) >= confidence_threshold
         THEN LET window == TrimBuffer(Append(buffer, label), stability_frames)
              IN  IF BufferStable(window, label, stability_frames)
                  THEN IF CooldownPassed(label, sign, current_time, time, cooldown_seconds)
                       THEN [buffer |-> <<>>, sign |-> label, time |-> current_time,
                             spoke |-> label, window |-> window, gate |-> TRUE]
                       ELSE [buffer |-> window, sign |-> sign, time |-> time,
                             spoke |-> None, window |-> window, gate |-> TRUE]
                  ELSE [buffer |-> window, sign |-> sign, time |-> time,
                        spoke |-> None, window |-> window, gate |-> FALSE]
         ELSE [buffer |-> <<>>, sign |-> sign, time |-> time,
               spoke |-> None, window |-> buffer, gate |-> FALSE]
    ELSE [buffer |-> <<>>, sign |-> sign, time |-> time,
          spoke |-> None, window |-> buffer, gate |-> FALSE]

\* deploy_pi.py counts the frames it reads and logs the frame rate at every
\* FpsEvery-th: frame_count += 1 ... if frame_count % 30 == 0: elapsed =
\* time.time() - fps_start; fps = 30 / elapsed; fps_start = time.time().  The
\* two readings of the clock are the iteration's second and third, after
\* current_time of the cooldown test: elapsed_at at line 291, restart_at at
\* line 294.  The division raises ZeroDivisionError when elapsed_at is what
\* fps_start holds, and fps_start is then not assigned.  Only frame_count % 30
\* is ever read, so the count is kept modulo FpsEvery.
FpsEvery == 30

\* the frame being read is one whose frame rate deploy_pi.py logs
ReadsFps == program = "deploy_pi" /\ (frame_count + 1) % FpsEvery = 0

FpsAfter(count, start, elapsed_at, restart_at) ==
    IF (count + 1) % FpsEvery = 0
    THEN IF elapsed_at - start = 0
         THEN [frame_count |-> 0, fps_start |-> start, raised |-> TRUE]
         ELSE [frame_count |-> 0, fps_start |-> restart_at, raised |-> FALSE]
    ELSE [frame_count |-> count + 1, fps_start |-> start, raised |-> FALSE]

\* ------------------------------------------------------------------ history

\* keep the last n entries of a sequence
LastN(s, n) ==
    IF Len(s) > n THEN SubSeq(s, Len(s) - n + 1, Len(s)) ELSE s

\* A frame qualifies when a hand was detected and the loop's test of the
\* confidence against the threshold holds: inference.py compares the
\* np.float32 itself, deploy_pi.py its float().
Qualifies(hand, confidence) ==
    /\ hand
    /\ IF program = "inference"
       THEN Float32GreaterEqual(numpy, confidence, confidence_threshold)
       ELSE Float(confidence) >= confidence_threshold

\* A run is a maximal series of consecutive processed frames that all qualify,
\* none but the last of which announced, with no reset key in between.
\*   labels: the labels of the run's last stability_frames frames, oldest first
\*   count:  the number of frames in the run (counting stops at stability_frames + 1)
\*   open:   the next qualifying frame continues the run
\*   from_empty: the stability window was empty when the run began
NoRun == [labels |-> <<>>, count |-> 0, open |-> FALSE, from_empty |-> FALSE]

RunAfter(hand, label, confidence, announced) ==
    LET prior == IF run.open THEN run
                 ELSE [labels |-> <<>>, count |-> 0, open |-> TRUE,
                       from_empty |-> (stability_buffer = <<>>)]
    IN  IF Qualifies(hand, confidence)
        THEN [labels |-> LastN(Append(prior.labels, label), stability_frames),
              count |-> IF prior.count > stability_frames THEN prior.count
                        ELSE prior.count + 1,
              open |-> ~announced,
              from_empty |-> prior.from_empty]
        ELSE NoRun

\* The end-to-end scenario of the specification: threshold 0.7, stability_frames
\* 3, cooldown 2 s and a frame every 0.1 s from t = 0, each ("Hello", 0.9), 24
\* frames in all.  Under SpecEndToEnd one tick is 0.1 s.
Hello == "Hello"
Scenario == [threshold |-> 70, stability_frames |-> 3, cooldown |-> 20,
             confidence |-> 90, frames |-> 24]

\*   on:       the frames arrive as in the scenario, frame n at tick n
\*   n:        the number of frames processed
\*   followed: every frame so far was ("Hello", 0.9) and no reset key was pressed
\*   fired:    the ticks of the announcements, while the scenario is followed
NoScript == [on |-> FALSE, n |-> 0, followed |-> FALSE, fired |-> <<>>]

ScriptAfter(hand, label, confidence, announced, now) ==
    IF ~script.on THEN script
    ELSE LET follows == /\ script.followed
                        /\ hand /\ label = Hello /\ confidence = Scenario.confidence
         IN  [on |-> TRUE, n |-> script.n + 1, followed |-> follows,
              fired |-> IF ~follows THEN <<>>
                        ELSE IF announced THEN Append(script.fired, now)
                        ELSE script.fired]

\* The deploy_pi.py loop run beside the inference.py loop on the same frames:
\* its recognition variables and what its last frame announced.
NoTwin == [on |-> FALSE, buffer |-> <<>>, sign |-> None, time |-> 0, spoke |-> None]

TwinAfter(hand, label, confidence, now) ==
    IF ~twin.on THEN twin
    ELSE LET r == DeployPiRecognitionStep(twin.buffer, twin.sign, twin.time,
                                          hand, label, confidence, now)
         IN  [on |-> TRUE, buffer |-> r.buffer, sign |-> r.sign, time |-> r.time,
              spoke |-> r.spoke]

\* Counting from some frame on:
\*   frames: the frames processed since then (the counting ends at SpanMax)
\*   fired:  the announcements among them
\*   since:  the frames processed after the latest announcement, up to
\*           MaxStabilityFrames; NoTime before the first announcement
\*   gap:    on an announcing frame, the frames from the announcement before
\*           it (excluded) to this one (included), 0 if there was none
NoSpan == [on |-> FALSE, frames |-> 0, fired |-> 0, since |-> NoTime, gap |-> 0]
SpanMax == MaxStabilityFrames + 2

SpanAfter(begin, announced) ==
    LET base == IF begin THEN [span EXCEPT !.frames = 0, !.fired = 0] ELSE span
        next_since == IF base.since = NoTime THEN NoTime
                      ELSE IF base.since < MaxStabilityFrames THEN base.since + 1
                      ELSE base.since
    IN  [on |-> TRUE,
         frames |-> base.frames + 1,
         fired |-> IF announced THEN base.fired + 1 ELSE base.fired,
         since |-> IF announced THEN 0 ELSE next_since,
         gap |-> IF announced /\ base.since # NoTime THEN base.since + 1 ELSE 0]

\* the record of a step that is no processed frame
IdleEv(op, key) ==
    [op |-> op, hand |-> FALSE, label |-> None, confidence |-> 0, time |-> clock,
     window |-> stability_buffer, gate |-> FALSE, spoke |-> None, key |-> key,
     prior_sign |-> last_announced_sign, prior_time |-> last_announcement_time,
     prev_same_time |-> NoTime, prev_adjacent |-> FALSE]

\* ------------------------------------------------------ normalize_landmarks

\* A hand has LandmarksPerHand landmarks of three coordinates (21 in utils.py,
\* so 63 values a hand and 126 a vector); the loops below are those of the code
\* with this count.  Coordinates are integers: the code only subtracts, and a
\* difference of two finite floats is 0 exactly when they are equal.
LandmarksPerHand == 2
HandLen == 3 * LandmarksPerHand
VectorLen == 2 * HandLen
Coordinates == {0, 1}

\* outcomes of a call
NotCalled == [status |-> "pending", value |-> <<>>]
IndexError == [status |-> "error", value |-> <<>>]
Returned(landmarks) == [status |-> "ok", value |-> landmarks]

\* landmarks[a:b], which numpy clips to the length of the array
Slice(landmarks, a, b) ==
    SubSeq(landmarks, a + 1, IF b < Len(landmarks) THEN b ELSE Len(landmarks))

\* np.any
AnyNonZero(s) == \E k \in 1..Len(s) : s[k] # 0

\* a slip: the wrist landmark itself is skipped
RECURSIVE SubtractWrist_SkipWrist(_, _, _, _)
SubtractWrist_SkipWrist(landmarks, i, end_idx, wrist) ==
    IF i >= end_idx THEN Returned(landmarks)
    ELSE IF i + 2 >= Len(landmarks) THEN IndexError
    ELSE IF i % HandLen = 0
         THEN SubtractWrist_SkipWrist(landmarks, i + 3, end_idx, wrist)
         ELSE SubtractWrist_SkipWrist(
                  [landmarks EXCEPT ![i + 1] = @ - wrist[1],
                                    ![i + 2] = @ - wrist[2],
                                    ![i + 3] = @ - wrist[3]],
                  i + 3, end_idx, wrist)

\* a slip: the wrist is read from the array while the loop overwrites it
RECURSIVE SubtractWrist_LiveWrist(_, _, _, _)
SubtractWrist_LiveWrist(landmarks, i, end_idx, wrist) ==
    IF i >= end_idx THEN Returned(landmarks)
    ELSE IF i + 2 >= Len(landmarks) THEN IndexError
    ELSE LET start_idx == (i \div HandLen) * HandLen
         IN  SubtractWrist_LiveWrist(
                 [landmarks EXCEPT ![i + 1] = @ - landmarks[start_idx + 1],
                                   ![i + 2] = @ - landmarks[start_idx + 2],
                                   ![i + 3] = @ - landmarks[start_idx + 3]],
                 i + 3, end_idx, wrist)

\* a slip: z is left as it is
RECURSIVE SubtractWrist_NoZ(_, _, _, _)
SubtractWrist_NoZ(landmarks, i, end_idx, wrist) ==
    IF i >= end_idx THEN Returned(landmarks)
    ELSE IF i + 2 >= Len(landmarks) THEN IndexError
    ELSE SubtractWrist_NoZ(
             [landmarks EXCEPT ![i + 1] = @ - wrist[1],
                               ![i + 2] = @ - wrist[2]],
             i + 3, end_idx, wrist)

\* for i in range(start_idx, end_idx, 3): landmarks[i] -= wrist_x; landmarks[i + 1]
\* -= wrist_y; landmarks[i + 2] -= wrist_z, from position i on.  wrist holds the
\* three scalars read before the loop.  An index past the end raises IndexError.
RECURSIVE SubtractWrist(_, _, _, _)
SubtractWrist(landmarks, i, end_idx, wrist) ==
    IF i >= end_idx THEN Returned(landmarks)
    ELSE IF i + 2 >= Len(landmarks) THEN IndexError
    ELSE SubtractWrist(
             [landmarks EXCEPT ![i + 1] = @ - wrist[1],
                               ![i + 2] = @ - wrist[2],
                               ![i + 3] = @ - wrist[3]],
             i + 3, end_idx, wrist)

\* the body of for hand_idx in range(2)
NormalizeHand(landmarks, hand_idx) ==
    LET start_idx == hand_idx * HandLen
        end_idx == start_idx + HandLen
    IN  IF AnyNonZero(Slice(landmarks, start_idx, end_idx))
        THEN IF start_idx + 2 >= Len(landmarks) THEN IndexError
             ELSE SubtractWrist(landmarks, start_idx, end_idx,
                                <<landmarks[start_idx + 1],
                                  landmarks[start_idx + 2],
                                  landmarks[start_idx + 3]>>)
        ELSE Returned(landmarks)

\* a slip: range(1), the second hand is left as it is
normalize_landmarks_FirstHandOnly(landmarks) ==
    NormalizeHand(landmarks, 0)

\* a slip: one wrist, that of the first hand, for the whole vector
normalize_landmarks_SharedWrist(landmarks) ==
    IF AnyNonZero(landmarks)
    THEN IF Len(landmarks) < 3 THEN IndexError
         ELSE SubtractWrist(landmarks, 0, VectorLen,
                            <<landmarks[1], landmarks[2], landmarks[3]>>)
    ELSE Returned(landmarks)

\* a slip: the function works on the caller's array
CopyArray_Alias(landmarks) == [array |-> landmarks, shared |-> TRUE]

\* landmarks.copy(): a new array with the same values, sharing no memory
CopyArray(landmarks) == [array |-> landmarks, shared |-> FALSE]

normalize_landmarks(landmarks) ==
    LET first == NormalizeHand(CopyArray(landmarks).array, 0)
    IN  IF first.status = "error" THEN first
        ELSE NormalizeHand(first.value, 1)

\* the array the caller passed, after the call: the function writes to its
\* local array only, which is the caller's when the two share memory
CallerArrayAfter(landmarks) ==
    LET returned == normalize_landmarks(landmarks)
    IN  IF CopyArray(landmarks).shared /\ returned.status = "ok"
        THEN returned.value
        ELSE landmarks

\* -------------------------------------------------------- extract_landmarks

\* results.multi_hand_landmarks is a sequence of hands, most confident first; a
\* hand is given by the HandLen values x, y, z of its landmarks in order.
NoHands == [status |-> "none", value |-> <<>>]

\* for i in range(min(2, len(...))): for landmark in ...: landmarks.extend([x, y, z])
RECURSIVE ExtendWithHands(_, _, _, _)
ExtendWithHands(landmarks, multi_hand_landmarks, i, n) ==
    IF i >= n THEN landmarks
    ELSE ExtendWithHands(landmarks \o multi_hand_landmarks[i + 1],
                         multi_hand_landmarks, i + 1, n)

\* a slip: nothing is appended
PadWithZeros_None(landmarks) == landmarks

\* while len(landmarks) < 126: landmarks.append(0.0)
RECURSIVE PadWithZeros(_)
PadWithZeros(landmarks) ==
    IF Len(landmarks) < VectorLen
    THEN PadWithZeros(Append(landmarks, 0))
    ELSE landmarks

\* utils.py: the part of extract_landmarks after hands.process
extract_landmarks(multi_hand_landmarks) ==
    IF Len(multi_hand_landmarks) > 0
    THEN LET n == IF Len(multi_hand_landmarks) < 2 THEN Len(multi_hand_landmarks) ELSE 2
             landmarks == PadWithZeros(ExtendWithHands(<<>>, multi_hand_landmarks, 0, n))
             landmarks_array == Slice(landmarks, 0, VectorLen)
         IN  normalize_landmarks(landmarks_array)
    ELSE NoHands

\* deploy_pi.py: the same with a float32 array
extract_landmarks_pi(multi_hand_landmarks) ==
    IF Len(multi_hand_landmarks) > 0
    THEN LET n == IF Len(multi_hand_landmarks) < 2 THEN Len(multi_hand_landmarks) ELSE 2
             landmarks == PadWithZeros(ExtendWithHands(<<>>, multi_hand_landmarks, 0, n))
             landmarks_array == Slice(landmarks, 0, VectorLen)
         IN  normalize_landmarks(landmarks_array)
    ELSE NoHands

\* ------------------------------------------------------------ get_sign_text

\* labels, in the order of the model's outputs
LabelList == <<"A", "B">>

\* np.argmax, as a position of the array (from 1): the first maximum
ArgMax(array) ==
    CHOOSE i \in 1..Len(array) :
        /\ \A j \in 1..Len(array) : array[j] <= array[i]
        /\ \A j \in 1..(i - 1) : array[j] < array[i]

get_sign_text(array, labels, threshold) ==
    LET max_idx == ArgMax(array)
        confidence == array[max_idx]
    IN  IF Float32GreaterEqual(numpy, confidence, threshold)
        THEN [status |-> "ok", value |-> <<labels[max_idx], confidence>>]
        ELSE [status |-> "ok", value |-> <<None, confidence>>]

\* ---------------------------------------------------------------- TTSEngine

\* The engine object and its speak threads.  At most MaxThreads threads are
\* alive at a time; a thread is at one of
\*   "started":   started, before with self.lock
\*   "locked":    holds the lock, before self.is_speaking = True
\*   "saying":    before and in engine.say(text); engine.runAndWait()
\*   "except":    say or runAndWait raised, before the print of the handler
\*   "finally":   before self.is_speaking = False
\*   "unlocking": before the lock is released at the end of the with block
\* and "none" marks a slot without thread.  lock is the thread that holds the
\* lock, 0 when it is free.  last_call is history: the text of the latest
\* speak call, whether it started a thread, and whether the lock was held.
ThreadIds == 1..MaxThreads
NoThread == [pc |-> "none", text |-> None]
NoCall == [text |-> None, started |-> FALSE, locked |-> FALSE]
NoTTS == [on |-> FALSE, is_speaking |-> FALSE, lock |-> 0,
          threads |-> [t \in ThreadIds |-> NoThread], last_call |-> NoCall]

\* TTSEngine.__init__: self.lock = threading.Lock(); self.is_speaking = False
NewEngine == [NoTTS EXCEPT !.on = TRUE]

FreeSlots(engine) == {t \in ThreadIds : engine.threads[t].pc = "none"}
Alive(engine) == ThreadIds \ FreeSlots(engine)

\* a slip: speak waits until the lock is free before it returns
speak_WaitForLock(engine, text) ==
    [returns |-> engine.lock = 0,
     engine |->
        IF ~engine.is_speaking /\ FreeSlots(engine) # {}
        THEN LET t == CHOOSE t \in FreeSlots(engine) :
                          \A u \in FreeSlots(engine) : t <= u
             IN  [engine EXCEPT !.threads[t] = [pc |-> "started", text |-> text],
                                !.last_call = [text |-> text, started |-> TRUE,
                                               locked |-> engine.lock # 0]]
        ELSE [engine EXCEPT !.last_call = [text |-> text, started |-> FALSE,
                                           locked |-> engine.lock # 0]]]

\* a slip: a text handed over while the engine speaks is kept for later, in a
\* thread that waits for the lock
speak_Queue(engine, text) ==
    [returns |-> TRUE,
     engine |->
        IF FreeSlots(engine) # {}
        THEN LET t == CHOOSE t \in FreeSlots(engine) :
                          \A u \in FreeSlots(engine) : t <= u
             IN  [engine EXCEPT !.threads[t] = [pc |-> "started", text |-> text],
                                !.last_call = [text |-> text,
                                               started |-> ~engine.is_speaking,
                                               locked |-> engine.lock # 0]]
        ELSE [engine EXCEPT !.last_call = [text |-> text, started |-> FALSE,
                                           locked |-> engine.lock # 0]]]

\* TTSEngine.speak: if not self.is_speaking, a daemon thread is created and
\* started.  returns tells whether the call returns from this state; engine is
\* the engine after it.
speak(engine, text) ==
    [returns |-> TRUE,
     engine |->
        IF ~engine.is_speaking /\ FreeSlots(engine) # {}
        THEN LET t == CHOOSE t \in FreeSlots(engine) :
                          \A u \in FreeSlots(engine) : t <= u
             IN  [engine EXCEPT !.threads[t] = [pc |-> "started", text |-> text],
                                !.last_call = [text |-> text, started |-> TRUE,
                                               locked |-> engine.lock # 0]]
        ELSE [engine EXCEPT !.last_call = [text |-> text, started |-> FALSE,
                                           locked |-> engine.lock # 0]]]

\* a slip: the lock is taken without waiting
LockFree_Always(engine) == TRUE

\* with self.lock: the thread goes on when the lock is free
LockFree(engine) == engine.lock = 0

\* ------------------------------------------------------------ webapp/app.py

\* The web app keeps one Popen object per kind of child process in a global
\* (None before the first start) and the dictionary app_state.  The server
\* runs the request handlers one at a time (async_mode = 'eventlet', nothing
\* in a handler yields); the monitor_inference threads are threads of their
\* own, whose statements interleave with the handlers'; the child processes
\* end when they end.  At most MaxSpawns processes of a kind are started.
MaxSpawns == 2
Kinds == {"inference", "collection", "training"}
ProcessIds == 1..MaxSpawns
NoProcess == 0

\* a monitor_inference thread is at one of
\*   "test":  before the test of the while loop
\*   "sleep": in the loop, before and in socketio.emit(...); time.sleep(1)
\*   "after": left the loop, before app_state['inference_running'] = False
\* and "none" marks a thread not started or ended.
NoMonitor == "none"

\* the handler in progress: stop_inference is "wait"ing in wait(timeout=5);
\* start_inference is before the "flag" assignment or before the "monitor"
\* thread is started
Idle == [op |-> "idle", pc |-> "idle"]

NoResponse == [op |-> "none", status |-> 0, success |-> FALSE, message |-> "none"]
Response(op, success, message) ==
    [op |-> op, status |-> 200, success |-> success, message |-> message]

\* The handler raised and returned nothing: Flask answers with the status
\* of the exception (500 when it is not an HTTPException) and an error page.
\* The answer carries no JSON: success is not part of it and holds the value
\* it has in NoResponse, message names the exception.
Raised(op, status, exception) ==
    [op |-> op, status |-> status, success |-> FALSE, message |-> exception]

\* The body of a POST request: a JSON object, another JSON value (a list, a
\* string, a number, null), text that is not JSON under a JSON content type,
\* or a body whose content type is not JSON.
RequestBodies == {"object", "not_object", "invalid_json", "not_json"}

\* What request.json does with a content type that is not JSON depends on the
\* Flask and Werkzeug installed, which the repository does not pin: it
\* returns None (Flask before 2.1), raises BadRequest, or raises
\* UnsupportedMediaType.
FlaskBuilds == {"returns_none", "bad_request", "unsupported_media_type"}

\* data = request.json: the value, or the HTTPException raised
request_json(body, flask) ==
    CASE body = "object" -> [raised |-> FALSE, data |-> "object"]
      [] body = "not_object" -> [raised |-> FALSE, data |-> "not_object"]
      [] body = "invalid_json" ->
             [raised |-> TRUE, status |-> 400, exception |-> "BadRequest"]
      [] body = "not_json" ->
             CASE flask = "returns_none" -> [raised |-> FALSE, data |-> "None"]
               [] flask = "bad_request" ->
                      [raised |-> TRUE, status |-> 400, exception |-> "BadRequest"]
               [] flask = "unsupported_media_type" ->
                      [raised |-> TRUE, status |-> 415,
                       exception |-> "UnsupportedMediaType"]

\* the module is loaded
WebAppLoaded ==
    /\ inference_process = NoProcess
    /\ collection_process = NoProcess
    /\ training_process = NoProcess
    /\ app_state = [inference_running |-> FALSE, current_sign |-> None,
                    confidence |-> 0, fps |-> 0, battery_level |-> 100]
    /\ processes = [k \in Kinds |-> [p \in ProcessIds |-> "unborn"]]
    /\ monitors = [m \in ProcessIds |-> NoMonitor]
    /\ handler = Idle
    /\ response = NoResponse

\* Popen.poll(): None while the child has not ended, its return code after
poll(kind, process) ==
    IF processes[kind][process] = "alive" THEN None ELSE "returncode"

\* a slip: the test for a running process is left out
Running_Never(kind, process) == FALSE

\* x_process and x_process.poll() is None
Running(kind, process) ==
    IF process = NoProcess THEN FALSE ELSE poll(kind, process) = None

\* subprocess.Popen(...): the child runs, the object returned stands for it
Unborn(kind) == {p \in ProcessIds : processes[kind][p] = "unborn"}
Popen(kind) == CHOOSE p \in Unborn(kind) : \A q \in Unborn(kind) : p <= q

\* -------------------------------------------------------------------- Init

\* no function is called on its own
NoCalls ==
    /\ raw = <<>>
    /\ normalized = NotCalled
    /\ caller_array = <<>>
    /\ detected = <<>>
    /\ extracted = NotCalled
    /\ prediction = <<>>
    /\ sign_text = NotCalled

\* The recognition variables and the history when the loop is entered, the
\* clock reading t0.  log is the initial log of announcement times: no sign
\* announced yet, or <<>> when the log is not kept.
LoopEntered(log, t0) ==
    /\ program \in Programs
    /\ numpy \in NumpyBuilds
    /\ pc = "frame"
    /\ stability_buffer = <<>>
    /\ last_announced_sign = None
    /\ last_announcement_time = 0
    /\ clock = t0
    /\ frame_count = 0
    /\ fps_start = t0
    /\ ev = [op |-> "init", hand |-> FALSE, label |-> None, confidence |-> 0,
             time |-> t0, window |-> <<>>, gate |-> FALSE, spoke |-> None,
             key |-> "none", prior_sign |-> None, prior_time |-> 0,
             prev_same_time |-> NoTime, prev_adjacent |-> FALSE]
    /\ run = NoRun
    /\ last_spoken_at = log
    /\ last_event = None
    /\ NoCalls
    /\ span = NoSpan
    /\ WebAppLoaded

\* any configuration within the bounds
AnyConfig ==
    /\ confidence_threshold \in Thresholds
    /\ stability_frames \in 1..MaxStabilityFrames
    /\ cooldown_seconds \in 0..MaxCooldown

Started(log) ==
    /\ AnyConfig
    /\ LoopEntered(log, StartTime)
    /\ script = NoScript
    /\ twin = NoTwin
    /\ tts = NoTTS

\* inference.py has entered its loop
Init == Started(<<>>) /\ program = "inference"

\* ----------------------------------------------------------------- actions

\* a slip: the announcement is recorded only when the engine took the text
FrameAt_RecordWhenSpoken(hand, label, confidence, now, elapsed_at, restart_at) ==
    /\ pc = "frame"
    /\ LET pass == IF program = "inference"
                   THEN RecognitionStep(stability_buffer, last_announced_sign,
                                        last_announcement_time, hand, label, confidence, now)
                   ELSE DeployPiRecognitionStep(stability_buffer, last_announced_sign,
                                                last_announcement_time, hand, label,
                                                confidence, now)
           r == IF tts.on /\ tts.is_speaking /\ pass.spoke # None
                THEN [pass EXCEPT !.buffer = pass.window,
                                  !.sign = last_announced_sign,
                                  !.time = last_announcement_time]
                ELSE pass
           announced == r.spoke # None
       IN  /\ stability_buffer' = r.buffer
           /\ last_announced_sign' = r.sign
           /\ last_announcement_time' = r.time
           /\ ev' = [op |-> "frame", hand |-> hand, label |-> label,
                     confidence |-> confidence, time |-> now, window |-> r.window,
                     gate |-> r.gate, spoke |-> r.spoke, key |-> "none",
                     prior_sign |-> last_announced_sign,
                     prior_time |-> last_announcement_time,
                     prev_same_time |-> IF announced /\ r.spoke \in DOMAIN last_spoken_at
                                        THEN last_spoken_at[r.spoke] ELSE NoTime,
                     prev_adjacent |-> announced /\ last_event = r.spoke]
           /\ run' = RunAfter(hand, label, confidence, announced)
           /\ last_spoken_at' = IF announced /\ r.spoke \in DOMAIN last_spoken_at
                                THEN [last_spoken_at EXCEPT ![r.spoke] = now]
                                ELSE last_spoken_at
           /\ last_event' = IF announced THEN r.spoke ELSE last_event
           /\ script' = ScriptAfter(hand, label, confidence, announced, now)
           /\ twin' = TwinAfter(hand, label, confidence, now)
           /\ IF tts.on /\ announced
              THEN /\ tts.is_speaking \/ FreeSlots(tts) # {}
                   /\ speak(tts, r.spoke).returns
                   /\ tts' = speak(tts, r.spoke).engine
              ELSE tts' = tts
    /\ IF program = "inference"
       THEN /\ pc' = "key"
            /\ clock' = now
            /\ UNCHANGED <<frame_count, fps_start>>
       ELSE LET fps == FpsAfter(frame_count, fps_start, elapsed_at, restart_at)
            IN  /\ pc' = IF fps.raised THEN "done" ELSE "frame"
                /\ clock' = IF ~ReadsFps THEN now
                            ELSE IF fps.raised THEN elapsed_at ELSE restart_at
                /\ frame_count' = fps.frame_count
                /\ fps_start' = fps.fps_start
    /\ UNCHANGED <<config, calls, webapp>>

\* A frame was captured: extract landmarks, classify, run the recognition step.
\* In inference.py the key poll follows in the same iteration; deploy_pi.py
\* sleeps and loops.
FrameAt(hand, label, confidence, now, elapsed_at, restart_at) ==
    /\ pc = "frame"
    /\ LET r == IF program = "inference"
                THEN RecognitionStep(stability_buffer, last_announced_sign,
                                     last_announcement_time, hand, label, confidence, now)
                ELSE DeployPiRecognitionStep(stability_buffer, last_announced_sign,
                                             last_announcement_time, hand, label,
                                             confidence, now)
           announced == r.spoke # None
       IN  /\ stability_buffer' = r.buffer
           /\ last_announced_sign' = r.sign
           /\ last_announcement_time' = r.time
           /\ ev' = [op |-> "frame", hand |-> hand, label |-> label,
                     confidence |-> confidence, time |-> now, window |-> r.window,
                     gate |-> r.gate, spoke |-> r.spoke, key |-> "none",
                     prior_sign |-> last_announced_sign,
                     prior_time |-> last_announcement_time,
                     prev_same_time |-> IF announced /\ r.spoke \in DOMAIN last_spoken_at
                                        THEN last_spoken_at[r.spoke] ELSE NoTime,
                     prev_adjacent |-> announced /\ last_event = r.spoke]
           /\ run' = RunAfter(hand, label, confidence, announced)
           /\ last_spoken_at' = IF announced /\ r.spoke \in DOMAIN last_spoken_at
                                THEN [last_spoken_at EXCEPT ![r.spoke] = now]
                                ELSE last_spoken_at
           /\ last_event' = IF announced THEN r.spoke ELSE last_event
           /\ script' = ScriptAfter(hand, label, confidence, announced, now)
           /\ twin' = TwinAfter(hand, label, confidence, now)
           /\ IF tts.on /\ announced
              THEN /\ tts.is_speaking \/ FreeSlots(tts) # {}
                   /\ speak(tts, r.spoke).returns
                   /\ tts' = speak(tts, r.spoke).engine
              ELSE tts' = tts
    /\ IF program = "inference"
       THEN /\ pc' = "key"
            /\ clock' = now
            /\ UNCHANGED <<frame_count, fps_start>>
       ELSE LET fps == FpsAfter(frame_count, fps_start, elapsed_at, restart_at)
            IN  /\ pc' = IF fps.raised THEN "done" ELSE "frame"
                /\ clock' = IF ~ReadsFps THEN now
                            ELSE IF fps.raised THEN elapsed_at ELSE restart_at
                /\ frame_count' = fps.frame_count
                /\ fps_start' = fps.fps_start
    /\ UNCHANGED <<config, calls, webapp>>

\* A frame whose current_time is read dt ticks after the previous reading of
\* the clock; on a frame whose frame rate is logged, deploy_pi.py reads the
\* clock again dt_elapsed ticks later (line 291) and dt_restart ticks after
\* that (line 294).
ProcessFrame(hand, label, confidence, dt, dt_elapsed, dt_restart) ==
    /\ ReadsFps \/ (dt_elapsed = 0 /\ dt_restart = 0)
    /\ clock + dt + dt_elapsed + dt_restart <= MaxTime
    /\ FrameAt(hand, label, confidence, clock + dt, clock + dt + dt_elapsed,
               clock + dt + dt_elapsed + dt_restart)
    /\ UNCHANGED span

Frame ==
    \/ \E dt \in 0..MaxStep, dt_elapsed \in 0..MaxStep, dt_restart \in 0..MaxStep :
           ProcessFrame(FALSE, None, 0, dt, dt_elapsed, dt_restart)
    \/ \E l \in Labels, c \in Confidences, dt \in 0..MaxStep,
          dt_elapsed \in 0..MaxStep, dt_restart \in 0..MaxStep :
           ProcessFrame(TRUE, l, c, dt, dt_elapsed, dt_restart)

\* inference.py: key = cv2.waitKey(1) & 0xFF at the end of the iteration
\* a slip: the reset leaves the window
ResetPressed_KeepWindow(buffer, sign) == [buffer |-> buffer, sign |-> None]

\* a slip: the reset leaves the last announced sign
ResetPressed_KeepSign(buffer, sign) == [buffer |-> <<>>, sign |-> sign]

\* elif key == ord('r') or key == ord('R'): stability_buffer.clear();
\* last_announced_sign = None
ResetPressed(buffer, sign) == [buffer |-> <<>>, sign |-> None]

HandleKey(key) ==
    /\ program = "inference"
    /\ pc = "key"
    /\ IF key = "q"
       THEN /\ pc' = "done"
            /\ UNCHANGED <<stability_buffer, last_announced_sign, last_event, run>>
       ELSE IF key = "r"
       THEN /\ pc' = "frame"
            /\ stability_buffer' = ResetPressed(stability_buffer, last_announced_sign).buffer
            /\ last_announced_sign' = ResetPressed(stability_buffer, last_announced_sign).sign
            /\ last_event' = "reset"
            /\ run' = NoRun
       ELSE /\ pc' = "frame"
            /\ UNCHANGED <<stability_buffer, last_announced_sign, last_event, run>>
    /\ ev' = IdleEv("key", key)
    /\ script' = IF key = "r" THEN [script EXCEPT !.followed = FALSE, !.fired = <<>>]
                 ELSE script
    /\ UNCHANGED <<config, last_announcement_time, clock, last_spoken_at, calls,
                   twin, span, tts, webapp, frame_count, fps_start>>

Key == \E key \in Keys : HandleKey(key)

\* the camera read failed: inference.py leaves the loop, deploy_pi.py sleeps
\* 0.1 s and tries again without touching the recognition variables
CaptureFailure ==
    /\ pc = "frame"
    /\ pc' = IF program = "inference" THEN "done" ELSE "frame"
    /\ ev' = IdleEv("capture_failed", "none")
    /\ UNCHANGED <<config, stability_buffer, last_announced_sign, last_announcement_time,
                   clock, run, last_spoken_at, last_event, script, calls,
                   twin, span, tts, webapp, frame_count, fps_start>>

Next == Frame \/ Key \/ CaptureFailure

Spec == Init /\ [][Next]_vars

\* deploy_pi.py in its loop: no key is read, a failed capture is tried again,
\* and the frames are counted for the frame rate.  The counter multiplies the
\* states by FpsEvery, so the configuration is one threshold and one window
\* length, and the frames have two confidences.
InitDeployPi ==
    /\ confidence_threshold = 70
    /\ stability_frames = 2
    /\ cooldown_seconds \in 0..1
    /\ LoopEntered(<<>>, StartTime)
    /\ program = "deploy_pi"
    /\ NumpyNotCompared    \* deploy_pi.py compares float(confidence)
    /\ script = NoScript
    /\ twin = NoTwin
    /\ tts = NoTTS

DeployPiFrames ==
    \/ \E dt \in 0..1, dt_elapsed \in 0..1, dt_restart \in 0..1 :
           ProcessFrame(FALSE, None, 0, dt, dt_elapsed, dt_restart)
    \/ \E l \in Labels, c \in {65, 90}, dt \in 0..1, dt_elapsed \in 0..1,
          dt_restart \in 0..1 :
           ProcessFrame(TRUE, l, c, dt, dt_elapsed, dt_restart)

NextDeployPi == DeployPiFrames \/ CaptureFailure
SpecDeployPi == InitDeployPi /\ [][NextDeployPi]_vars

\* inference.py, with the log of announcement times per sign kept
InitLog ==
    /\ Started([l \in Labels |-> NoTime])
    /\ program = "inference"
    /\ NumpyAlike
SpecLog == InitLog /\ [][Next]_vars

\* the same program on a machine whose clock reads 0 when the loop is entered,
\* so that the first readings do not exceed the cooldown
InitEarly ==
    /\ AnyConfig
    /\ LoopEntered(<<>>, 0)
    /\ program = "inference"
    /\ NumpyAlike
    /\ script = NoScript
    /\ twin = NoTwin
    /\ tts = NoTTS
SpecEarly == InitEarly /\ [][Next]_vars

\* The end-to-end scenario: its configuration, a frame every tick from tick 0.
\* The camera may leave the scenario (another label, a low confidence, no
\* hand); the timing stays.
InitEndToEnd ==
    /\ confidence_threshold = Scenario.threshold
    /\ stability_frames = Scenario.stability_frames
    /\ cooldown_seconds = Scenario.cooldown
    /\ LoopEntered(<<>>, 0)
    /\ script = [on |-> TRUE, n |-> 0, followed |-> TRUE, fired |-> <<>>]
    /\ twin = NoTwin
    /\ tts = NoTTS

ScenarioFrame(hand, label, confidence) ==
    /\ script.on
    /\ script.n < Scenario.frames
    /\ ~ReadsFps    \* the scenario ends before the first frame rate is logged
    /\ FrameAt(hand, label, confidence, script.n, script.n, script.n)
    /\ UNCHANGED span

TimedFrame ==
    \/ ScenarioFrame(FALSE, None, 0)
    \/ \E l \in {Hello, "A"}, c \in {65, Scenario.confidence} : ScenarioFrame(TRUE, l, c)

NextEndToEnd == TimedFrame \/ Key
SpecEndToEnd == InitEndToEnd /\ [][NextEndToEnd]_vars

\* One sign is held before the camera: every frame has a hand, the label of the
\* frame before it and a confidence that reaches the threshold, and the clock
\* advances between frames.  No key is pressed.  The loop is a while True
\* without blocking calls, so an iteration that can run does run.
HeldMaxTime == StartTime + MaxStep * (2 * MaxStabilityFrames + MaxCooldown + 1)

HeldFrame ==
    \E l \in Labels, c \in Confidences, dt \in 1..MaxStep,
       dt_elapsed \in 0..MaxStep, dt_restart \in 0..MaxStep :
        /\ Qualifies(TRUE, c)
        /\ IF run.labels = <<>> THEN TRUE ELSE l = run.labels[Len(run.labels)]
        /\ ReadsFps \/ (dt_elapsed = 0 /\ dt_restart = 0)
        /\ clock + dt + dt_elapsed + dt_restart <= HeldMaxTime
        /\ FrameAt(TRUE, l, c, clock + dt, clock + dt + dt_elapsed,
                   clock + dt + dt_elapsed + dt_restart)
        /\ UNCHANGED span

NoKey == HandleKey("none")

NextHeld == HeldFrame \/ NoKey
SpecHeld == Started(<<>>) /\ [][NextHeld]_vars /\ WF_vars(NextHeld)

\* normalize_landmarks called on its own.  The arguments are every vector of
\* VectorLen coordinates and, of the other lengths up to VectorLen + HandLen,
\* the vectors with at most one non-zero value.
UnitVector(n, k) == [j \in 1..n |-> IF j = k THEN 1 ELSE 0]
WellFormed == [1..VectorLen -> Coordinates]
Malformed ==
    {UnitVector(n, k) : n \in (0..(VectorLen + HandLen)) \ {VectorLen}, k \in 0..(VectorLen + HandLen)}
NormalizeInputs == WellFormed \cup Malformed

\* the frame loop is not running
LoopIdle ==
    /\ stability_frames = 1
    /\ cooldown_seconds = 0
    /\ stability_buffer = <<>>
    /\ last_announced_sign = None
    /\ last_announcement_time = 0
    /\ clock = 0
    /\ frame_count = 0
    /\ fps_start = 0
    /\ ev = IdleEv("init", "none")
    /\ run = NoRun
    /\ last_spoken_at = <<>>
    /\ last_event = None
    /\ script = NoScript
    /\ twin = NoTwin
    /\ span = NoSpan
    /\ tts = NoTTS
    /\ WebAppLoaded

InitNormalize ==
    /\ program = "inference"
    /\ NumpyNotCompared
    /\ pc = "normalize"
    /\ confidence_threshold = 70
    /\ LoopIdle
    /\ raw \in NormalizeInputs
    /\ normalized = NotCalled
    /\ caller_array = raw
    /\ detected = <<>>
    /\ extracted = NotCalled
    /\ prediction = <<>>
    /\ sign_text = NotCalled

Normalize ==
    /\ pc = "normalize"
    /\ normalized' = normalize_landmarks(raw)
    /\ caller_array' = CallerArrayAfter(raw)
    /\ pc' = "normalized"
    /\ UNCHANGED <<config, loop_state, raw, detected, extracted, prediction, sign_text,
                   webapp>>

NextNormalize == Normalize
SpecNormalize == InitNormalize /\ [][NextNormalize]_vars

\* The two loops side by side: the variables of the model run inference.py, twin
\* runs deploy_pi.py on the same frames and clock readings.  No key is pressed
\* and no capture fails.
InitBoth ==
    /\ confidence_threshold \in Thresholds \cup InexactThresholds
    /\ stability_frames \in 1..MaxStabilityFrames
    /\ cooldown_seconds \in 0..MaxCooldown
    /\ LoopEntered(<<>>, StartTime)
    /\ program = "inference"
    /\ script = NoScript
    /\ twin = [NoTwin EXCEPT !.on = TRUE]
    /\ tts = NoTTS

NextBoth == Frame \/ NoKey
SpecBoth == InitBoth /\ [][NextBoth]_vars

\* The loop with its frames and announcements counted from any frame on.  The
\* cooldown is 0, which lets the most announcements through: a repeat needs
\* the clock to advance by one tick, another sign needs nothing.
InitSpan ==
    /\ confidence_threshold = 70
    /\ stability_frames \in 1..MaxStabilityFrames
    /\ cooldown_seconds = 0
    /\ LoopEntered(<<>>, StartTime)
    /\ program = "inference"
    /\ script = NoScript
    /\ twin = NoTwin
    /\ tts = NoTTS

CountedFrame(hand, label, confidence, dt, begin) ==
    /\ clock + dt <= MaxTime
    /\ begin \/ span.frames < SpanMax
    /\ ~ReadsFps    \* inference.py is counted: it has one reading per frame
    /\ FrameAt(hand, label, confidence, clock + dt, clock + dt, clock + dt)
    /\ span' = SpanAfter(begin, ev'.spoke # None)

CountedFrames ==
    \/ \E dt \in 0..1, begin \in BOOLEAN : CountedFrame(FALSE, None, 0, dt, begin)
    \/ \E l \in Labels, c \in {65, 90}, dt \in 0..1, begin \in BOOLEAN :
           CountedFrame(TRUE, l, c, dt, begin)

NextSpan == CountedFrames \/ Key \/ CaptureFailure
SpecSpan == InitSpan /\ [][NextSpan]_vars

\* The loop with its TTS engine and the speak threads.  The steps of a thread
\* interleave with the loop and with the other threads.
InitTTS ==
    /\ confidence_threshold = 70
    /\ stability_frames = 1
    /\ cooldown_seconds \in 0..1
    /\ LoopEntered(<<>>, StartTime)
    /\ program = "inference"
    /\ script = NoScript
    /\ twin = NoTwin
    /\ tts = NewEngine

SpeakingFrames ==
    \/ \E dt \in 0..1 : ProcessFrame(FALSE, None, 0, dt, 0, 0)
    \/ \E l \in Labels, dt \in 0..1 : ProcessFrame(TRUE, l, 90, dt, 0, 0)

ThreadStep(t, from, to, engine) ==
    /\ tts.on
    /\ tts.threads[t].pc = from
    /\ tts' = [engine EXCEPT !.threads[t] = IF to = "none" THEN NoThread
                                            ELSE [@ EXCEPT !.pc = to]]
    /\ UNCHANGED <<config, pc, stability_buffer, last_announced_sign,
                   last_announcement_time, clock, ev, run, last_spoken_at, last_event,
                   script, twin, span, calls, webapp, frame_count, fps_start>>

\* with self.lock:
AcquireLock(t) ==
    /\ LockFree(tts)
    /\ ThreadStep(t, "started", "locked", [tts EXCEPT !.lock = t])

\* self.is_speaking = True
SetSpeaking(t) == ThreadStep(t, "locked", "saying", [tts EXCEPT !.is_speaking = TRUE])

\* self.engine.say(text); self.engine.runAndWait() return; or they raise
\* something that is no Exception, which no handler catches and the finally
\* clause meets on its way out
SayAndWait(t) == ThreadStep(t, "saying", "finally", tts)

\* say or runAndWait raise an Exception
SayRaises(t) == ThreadStep(t, "saying", "except", tts)

\* a slip: the handler leaves the block without the finally clause
PrintError_SkipFinally(t) == ThreadStep(t, "except", "unlocking", tts)

\* except Exception as e: print(f"TTS Error: {e}")
PrintError(t) == ThreadStep(t, "except", "finally", tts)

\* finally: self.is_speaking = False
ClearSpeaking(t) == ThreadStep(t, "finally", "unlocking", [tts EXCEPT !.is_speaking = FALSE])

\* the end of the with block releases the lock, and the thread ends
ReleaseLock(t) == ThreadStep(t, "unlocking", "none", [tts EXCEPT !.lock = 0])

\* the next statement of thread t
SpeakThreadStep(t) ==
    \/ AcquireLock(t)
    \/ SetSpeaking(t)
    \/ SayAndWait(t)
    \/ SayRaises(t)
    \/ PrintError(t)
    \/ ClearSpeaking(t)
    \/ ReleaseLock(t)

SpeakThread == \E t \in ThreadIds : SpeakThreadStep(t)

NextTTS == SpeakingFrames \/ NoKey \/ SpeakThread
SpecTTS == InitTTS /\ [][NextTTS]_vars

\* The same, with every speak thread scheduled: a thread whose next statement
\* can be executed executes it in the end, and say/runAndWait return or raise.
\* The cooldown is 0, so that every sign shown after another is announced.
InitTTSFair ==
    /\ InitTTS
    /\ cooldown_seconds = 0

SpecTTSFair ==
    /\ InitTTSFair
    /\ [][NextTTS]_vars
    /\ \A t \in ThreadIds : WF_vars(SpeakThreadStep(t))

\* Landmark extraction called on its own, after MediaPipe has reported up to
\* three hands.
SampleHands ==
    {UnitVector(HandLen, k) : k \in 0..HandLen} \cup {[j \in 1..HandLen |-> 1]}
DetectedInputs == UNION {[1..n -> SampleHands] : n \in 0..3}

InitExtract ==
    /\ program \in Programs
    /\ NumpyNotCompared
    /\ pc = "extract"
    /\ confidence_threshold = 70
    /\ LoopIdle
    /\ raw = <<>>
    /\ normalized = NotCalled
    /\ caller_array = <<>>
    /\ detected \in DetectedInputs
    /\ extracted = NotCalled
    /\ prediction = <<>>
    /\ sign_text = NotCalled

Extract ==
    /\ pc = "extract"
    /\ extracted' = IF program = "inference" THEN extract_landmarks(detected)
                    ELSE extract_landmarks_pi(detected)
    /\ pc' = "extracted"
    /\ UNCHANGED <<config, loop_state, raw, normalized, caller_array, detected,
                   prediction, sign_text, webapp>>

NextExtract == Extract
SpecExtract == InitExtract /\ [][NextExtract]_vars


InitSignText ==
    /\ program = "inference"
    /\ numpy \in NumpyBuilds
    /\ pc = "sign_text"
    /\ confidence_threshold \in Thresholds
    /\ LoopIdle
    /\ raw = <<>>
    /\ normalized = NotCalled
    /\ caller_array = <<>>
    /\ detected = <<>>
    /\ extracted = NotCalled
    /\ prediction \in [1..Len(LabelList) -> Probabilities]
    /\ sign_text = NotCalled

SignText ==
    /\ pc = "sign_text"
    /\ sign_text' = get_sign_text(prediction, LabelList, confidence_threshold)
    /\ pc' = "sign_text_returned"
    /\ UNCHANGED <<config, loop_state, raw, normalized, caller_array, detected,
                   extracted, prediction, webapp>>

NextSignText == SignText
SpecSignText == InitSignText /\ [][NextSignText]_vars

\* --------------------------------------------------- the web app's handlers

\* what a step of the web app leaves alone
LoopUntouched == UNCHANGED <<config, pc, loop_state, calls>>

\* start_inference, up to the Popen call: the request is refused when the
\* process of the global is running; Popen starts the child or raises
StartInferenceCheck(popen_ok) ==
    /\ handler = Idle
    /\ IF Running("inference", inference_process)
       THEN /\ response' = Response("start_inference", FALSE, "Inference already running")
            /\ UNCHANGED <<inference_process, processes, handler>>
       ELSE IF popen_ok
       THEN /\ Unborn("inference") # {}
            /\ inference_process' = Popen("inference")
            /\ processes' = [processes EXCEPT !["inference"][Popen("inference")] = "alive"]
            /\ handler' = [op |-> "start_inference", pc |-> "flag"]
            /\ UNCHANGED response
       ELSE /\ response' = Response("start_inference", FALSE, "str(e)")
            /\ UNCHANGED <<inference_process, processes, handler>>
    /\ UNCHANGED <<collection_process, training_process, app_state, monitors>>
    /\ LoopUntouched

\* app_state['inference_running'] = True
StartInferenceSetFlag ==
    /\ handler = [op |-> "start_inference", pc |-> "flag"]
    /\ app_state' = [app_state EXCEPT !.inference_running = TRUE]
    /\ handler' = [op |-> "start_inference", pc |-> "monitor"]
    /\ UNCHANGED <<inference_process, collection_process, training_process,
                   processes, monitors, response>>
    /\ LoopUntouched

\* threading.Thread(target=monitor_inference, daemon=True).start(); return
StartInferenceMonitor ==
    /\ handler = [op |-> "start_inference", pc |-> "monitor"]
    /\ monitors[inference_process] = NoMonitor
    /\ monitors' = [monitors EXCEPT ![inference_process] = "test"]
    /\ response' = Response("start_inference", TRUE, "Inference started")
    /\ handler' = Idle
    /\ UNCHANGED <<inference_process, collection_process, training_process,
                   processes, app_state>>
    /\ LoopUntouched

start_inference ==
    \/ \E popen_ok \in BOOLEAN : StartInferenceCheck(popen_ok)
    \/ StartInferenceSetFlag
    \/ StartInferenceMonitor

\* stop_inference, up to wait(timeout=5): refused when no process is running,
\* else SIGINT is sent and the handler waits
StopInferenceCheck ==
    /\ handler = Idle
    /\ IF ~Running("inference", inference_process)
       THEN /\ response' = Response("stop_inference", FALSE, "Inference not running")
            /\ UNCHANGED handler
       ELSE /\ handler' = [op |-> "stop_inference", pc |-> "wait"]
            /\ UNCHANGED response
    /\ UNCHANGED <<inference_process, collection_process, training_process,
                   app_state, processes, monitors>>
    /\ LoopUntouched

\* a slip: the flag is cleared whether the wait returned or timed out
StopInferenceEnd_ClearsAnyway ==
    /\ handler = [op |-> "stop_inference", pc |-> "wait"]
    /\ app_state' = [app_state EXCEPT !.inference_running = FALSE,
                                      !.current_sign = None]
    /\ response' = IF poll("inference", inference_process) # None
                   THEN Response("stop_inference", TRUE, "Inference stopped")
                   ELSE Response("stop_inference", FALSE, "str(e)")
    /\ handler' = Idle
    /\ UNCHANGED <<inference_process, collection_process, training_process,
                   processes, monitors>>
    /\ LoopUntouched

\* wait(timeout=5) returns when the child has ended, and the two entries of
\* app_state are set; or it raises TimeoutExpired while the child runs
StopInferenceEnd ==
    /\ handler = [op |-> "stop_inference", pc |-> "wait"]
    /\ IF poll("inference", inference_process) # None
       THEN /\ app_state' = [app_state EXCEPT !.inference_running = FALSE,
                                              !.current_sign = None]
            /\ response' = Response("stop_inference", TRUE, "Inference stopped")
       ELSE /\ response' = Response("stop_inference", FALSE, "str(e)")
            /\ UNCHANGED app_state
    /\ handler' = Idle
    /\ UNCHANGED <<inference_process, collection_process, training_process,
                   processes, monitors>>
    /\ LoopUntouched

stop_inference == StopInferenceCheck \/ StopInferenceEnd

MonitorStep(m, from, to) ==
    /\ monitors[m] = from
    /\ monitors' = [monitors EXCEPT ![m] = to]
    /\ UNCHANGED <<inference_process, collection_process, training_process,
                   processes, handler, response>>
    /\ LoopUntouched

\* while inference_process and inference_process.poll() is None: the global
\* is read at every test
MonitorTest(m) ==
    /\ MonitorStep(m, "test", IF Running("inference", inference_process)
                              THEN "sleep" ELSE "after")
    /\ UNCHANGED app_state

\* socketio.emit('inference_update', app_state); time.sleep(1)
MonitorSleep(m) ==
    /\ MonitorStep(m, "sleep", "test")
    /\ UNCHANGED app_state

\* app_state['inference_running'] = False; socketio.emit(...); the thread ends
MonitorClearFlag(m) ==
    /\ MonitorStep(m, "after", NoMonitor)
    /\ app_state' = [app_state EXCEPT !.inference_running = FALSE]

monitor_inference ==
    \E m \in ProcessIds : MonitorTest(m) \/ MonitorSleep(m) \/ MonitorClearFlag(m)

\* start_collection: refused without a sign name and when the process of the
\* global is running
\* data = request.json; sign_name = data.get('sign') are outside the try of
\* 353-364.  request.json raises on a body it cannot read; data.get raises
\* AttributeError when data is a JSON value other than an object, or None.
\* In each case the handler returns nothing and has written nothing.
\* sign_given: the object has a non-empty 'sign'.
start_collection(body, flask, sign_given, popen_ok) ==
    /\ handler = Idle
    /\ LET request == request_json(body, flask)
       IN  IF request.raised
           THEN /\ response' = Raised("start_collection", request.status,
                                      request.exception)
                /\ UNCHANGED <<collection_process, processes>>
           ELSE IF request.data # "object"
           THEN /\ response' = Raised("start_collection", 500, "AttributeError")
                /\ UNCHANGED <<collection_process, processes>>
           ELSE IF ~sign_given
           THEN /\ response' = Response("start_collection", FALSE,
                                        "No sign name provided")
                /\ UNCHANGED <<collection_process, processes>>
           ELSE IF Running("collection", collection_process)
           THEN /\ response' = Response("start_collection", FALSE,
                                        "Collection already running")
                /\ UNCHANGED <<collection_process, processes>>
           ELSE IF popen_ok
           THEN /\ Unborn("collection") # {}
                /\ collection_process' = Popen("collection")
                /\ processes' = [processes EXCEPT
                                     !["collection"][Popen("collection")] = "alive"]
                /\ response' = Response("start_collection", TRUE, "Started collecting")
           ELSE /\ response' = Response("start_collection", FALSE, "str(e)")
                /\ UNCHANGED <<collection_process, processes>>
    /\ UNCHANGED <<inference_process, training_process, app_state, monitors, handler>>
    /\ LoopUntouched

\* any request: the Flask build matters to a body that is not JSON only, the
\* sign and Popen to a JSON object only
StartCollection ==
    \/ \E sign_given \in BOOLEAN, popen_ok \in BOOLEAN :
           start_collection("object", "returns_none", sign_given, popen_ok)
    \/ \E body \in {"not_object", "invalid_json"} :
           start_collection(body, "returns_none", FALSE, FALSE)
    \/ \E flask \in FlaskBuilds : start_collection("not_json", flask, FALSE, FALSE)

\* start_training; its monitor_training thread reads the child's output and
\* emits it, and writes none of the globals
start_training(popen_ok) ==
    /\ handler = Idle
    /\ IF Running("training", training_process)
       THEN /\ response' = Response("start_training", FALSE, "Training already running")
            /\ UNCHANGED <<training_process, processes>>
       ELSE IF popen_ok
       THEN /\ Unborn("training") # {}
            /\ training_process' = Popen("training")
            /\ processes' = [processes EXCEPT !["training"][Popen("training")] = "alive"]
            /\ response' = Response("start_training", TRUE, "Training started")
       ELSE /\ response' = Response("start_training", FALSE, "str(e)")
            /\ UNCHANGED <<training_process, processes>>
    /\ UNCHANGED <<inference_process, collection_process, app_state, monitors, handler>>
    /\ LoopUntouched

StartTraining == \E popen_ok \in BOOLEAN : start_training(popen_ok)

\* a child process ends: by itself, or on the SIGINT of stop_inference
ProcessExit ==
    \E kind \in Kinds, p \in ProcessIds :
        /\ processes[kind][p] = "alive"
        /\ processes' = [processes EXCEPT ![kind][p] = "exited"]
        /\ UNCHANGED <<inference_process, collection_process, training_process,
                       app_state, monitors, handler, response>>
        /\ LoopUntouched

InitWebApp ==
    /\ program = "inference"
    /\ NumpyNotCompared
    /\ pc = "webapp"
    /\ confidence_threshold = 70
    /\ LoopIdle
    /\ NoCalls

NextWebApp ==
    \/ start_inference
    \/ stop_inference
    \/ monitor_inference
    \/ StartCollection
    \/ StartTraining
    \/ ProcessExit

SpecWebApp == InitWebApp /\ [][NextWebApp]_vars

\* ------------------------------------------------------------------ claims

\* the last step processed a frame that qualifies
QualifyingFrame == ev.op = "frame" /\ Qualifies(ev.hand, ev.confidence)

\* every element of a sequence equals x
AllEqual(s, x) == \A i \in 1..Len(s) : s[i] = x

C2_GateFiresExactlyWhen ==
    (ev.op = "frame" /\ ev.gate) =>
        LET fires == ev.label # ev.prior_sign
                     \/ ev.time - ev.prior_time > cooldown_seconds
        IN  /\ fires => /\ ev.spoke = ev.label
                        /\ last_announced_sign = ev.label
                        /\ last_announcement_time = ev.time
            /\ ~fires => ev.spoke = None

\* the same label was stable exactly cooldown after its announcement, and was suppressed
C2_Witness ==
    /\ ev.op = "frame" /\ ev.gate
    /\ ev.label = ev.prior_sign
    /\ cooldown_seconds > 0
    /\ ev.time - ev.prior_time = cooldown_seconds
    /\ ev.spoke = None

\* C3: when the gate is reached but does not fire (same label, cooldown not
\* elapsed), the announcement state is left as it was, nothing is announced
\* and the window is not cleared.
C3_SuppressedLeavesState ==
    (/\ ev.op = "frame" /\ ev.gate
     /\ ev.label = ev.prior_sign
     /\ ev.time - ev.prior_time <= cooldown_seconds) =>
        /\ last_announced_sign = ev.prior_sign
        /\ last_announcement_time = ev.prior_time
        /\ ev.spoke = None
        /\ stability_buffer = ev.window
        /\ Len(stability_buffer) = stability_frames

\* a suppressed repeat with a window of three
C3_Witness ==
    /\ ev.op = "frame" /\ ev.gate
    /\ ev.spoke = None
    /\ stability_frames = 3
    /\ stability_buffer = <<ev.label, ev.label, ev.label>>

C6_StableOnNthOnly ==
    (/\ QualifyingFrame
     /\ run.from_empty
     /\ run.count <= stability_frames
     /\ AllEqual(run.labels, ev.label)) =>
        (ev.gate <=> run.count = stability_frames)

\* the third of three equal frames fed to an empty window of capacity three
C6_Witness ==
    /\ QualifyingFrame
    /\ run.from_empty
    /\ stability_frames = 3
    /\ run.count = 3
    /\ AllEqual(run.labels, ev.label)
    /\ ev.gate

\* C7: with stability_frames = 3 and an empty window, none of the frames of
\* A, A, B (A # B) reaches the gate; and no frame reaches the gate with a
\* window at capacity that holds two different labels.
C7_MixedWindowNeverStable ==
    /\ (/\ QualifyingFrame
         /\ stability_frames = 3
         /\ run.from_empty
         /\ \E a, b \in Labels :
                /\ a # b
                /\ \/ run.count = 1 /\ run.labels = <<a>>
                   \/ run.count = 2 /\ run.labels = <<a, a>>
                   \/ run.count = 3 /\ run.labels = <<a, a, b>>) => ~ev.gate
    /\ (/\ ev.op = "frame"
         /\ Len(ev.window) = stability_frames
         /\ \E i, j \in 1..Len(ev.window) : ev.window[i] # ev.window[j]) => ~ev.gate

\* A, A, B was fed to an empty window of capacity three
C7_Witness ==
    /\ QualifyingFrame
    /\ stability_frames = 3
    /\ run.from_empty
    /\ run.count = 3
    /\ ev.window = <<"A", "A", "B">>

\* C8: the window never holds more than stability_frames labels, and it
\* equals the labels of the latest consecutive qualifying frames, oldest
\* first, at most stability_frames of them (so a push onto a full window
\* evicts the oldest label); it is empty when no such run is open.
C8_WindowIsRecentLabels ==
    /\ Len(stability_buffer) <= stability_frames
    /\ stability_buffer = IF run.open THEN run.labels ELSE <<>>
    /\ QualifyingFrame =>
           /\ ev.window = run.labels
           /\ ev.window[Len(ev.window)] = ev.label

\* a label was pushed onto a full window of three and the oldest one left
C8_Witness ==
    /\ QualifyingFrame
    /\ stability_frames = 3
    /\ run.count > 3
    /\ stability_buffer = <<"A", "A", "B">>

\* C9 as stated, in the case it names: a sign announced again after a
\* different sign was announced in between (the three at different times) is
\* announced more than cooldown after its previous announcement.
C9_Original ==
    (/\ ev.op = "frame" /\ ev.spoke # None
     /\ ev.prev_same_time # NoTime
     /\ ev.prior_sign \in Labels \ {ev.spoke}
     /\ ev.prev_same_time < ev.prior_time
     /\ ev.prior_time < ev.time) =>
        ev.time - ev.prev_same_time > cooldown_seconds

\* C9 amended: two consecutive announcements of the same sign, with no
\* announcement of another sign and no reset key between them, are more than
\* cooldown apart.
C9_ConsecutiveSameSign ==
    (ev.op = "frame" /\ ev.spoke # None /\ ev.prev_adjacent) =>
        /\ ev.prev_same_time # NoTime
        /\ ev.time - ev.prev_same_time > cooldown_seconds

\* a sign was announced again, right after its own announcement
C9_Witness ==
    /\ ev.op = "frame" /\ ev.spoke # None
    /\ ev.prev_adjacent
    /\ cooldown_seconds = 2
    /\ ev.time - ev.prev_same_time = 3

\* C10 as stated: the announcement state changes only on a frame where the
\* gate fires.
C10_Original ==
    (last_announced_sign # ev.prior_sign \/ last_announcement_time # ev.prior_time) =>
        (ev.op = "frame" /\ ev.spoke # None)

\* C10 amended: the announcement state changes only on a frame where the gate
\* fires and on the reset key of inference.py, which sets the last announced
\* label to None and keeps the time; every other step leaves both unchanged.
C10_StateChangesOnlyOnFireOrReset ==
    /\ (ev.op = "frame" /\ ev.spoke = None) =>
           /\ last_announced_sign = ev.prior_sign
           /\ last_announcement_time = ev.prior_time
    /\ (ev.op = "key" /\ ev.key = "r") =>
           /\ program = "inference"
           /\ last_announced_sign = None
           /\ last_announcement_time = ev.prior_time
    /\ (ev.op \notin {"frame", "key"} \/ (ev.op = "key" /\ ev.key # "r")) =>
           /\ last_announced_sign = ev.prior_sign
           /\ last_announcement_time = ev.prior_time

\* the reset key was pressed after a sign had been announced
C10_Witness ==
    /\ ev.op = "key" /\ ev.key = "r"
    /\ ev.prior_sign \in Labels
    /\ last_announced_sign = None
    /\ last_announcement_time = ev.prior_time

\* C11: in the end-to-end scenario (one tick = 0.1 s) the announcements so far
\* are none before the frame at tick 2, the one at tick 2 from then until the
\* frame at tick 22, and those at ticks 2 and 23 after the frame at tick 23;
\* the window is empty after the frame at tick 2; the frame at tick 5 reaches
\* the gate and announces nothing.
C11_EndToEnd ==
    (script.on /\ script.followed) =>
        /\ script.fired = IF script.n <= 2 THEN <<>>
                          ELSE IF script.n <= 23 THEN <<2>>
                          ELSE <<2, 23>>
        /\ (script.n = 3 /\ ev.op = "frame") =>
               ev.spoke = Hello /\ stability_buffer = <<>>
        /\ (script.n = 6 /\ ev.op = "frame") =>
               ev.gate /\ ev.spoke = None /\ stability_buffer = <<Hello, Hello, Hello>>
        /\ (script.n = 24 /\ ev.op = "frame") =>
               ev.spoke = Hello /\ ev.time = 23

\* the scenario was followed to its last frame
C11_Witness ==
    /\ script.on /\ script.followed
    /\ script.n = 24
    /\ script.fired = <<2, 23>>

\* C13: when the gate is reached with the announcement state as the program
\* starts it (no label, time 0), the label is announced, also when the clock
\* reading does not exceed the cooldown.
C13_FirstStableAnnounced ==
    (/\ ev.op = "frame" /\ ev.gate
     /\ ev.prior_sign = None
     /\ ev.prior_time = 0) =>
        /\ ev.spoke = ev.label
        /\ last_announced_sign = ev.label
        /\ last_announcement_time = ev.time

\* the first stable label was announced at a clock reading within the cooldown
C13_Witness ==
    /\ ev.op = "frame" /\ ev.gate
    /\ ev.prior_sign = None /\ ev.prior_time = 0
    /\ last_event = ev.label
    /\ ev.time > 0
    /\ ev.time <= cooldown_seconds
    /\ ev.spoke = ev.label

\* C14 as stated: after a failed capture, with the loop still running, the
\* stability window is empty.
C14_SkippedFrameClears ==
    (ev.op = "capture_failed" /\ pc # "done") => stability_buffer = <<>>

\* C12: while a sign L is held that was the last announced, a qualifying frame
\* with label L that finds the window full of L reaches the gate; if its time
\* exceeds the last announcement time by more than the cooldown it announces L,
\* otherwise the window stays as it was (full) and the announcement state is
\* unchanged.  With the clock advancing the held sign is eventually announced
\* again.
C12_HeldStep ==
    (/\ ev'.op = "frame"
     /\ Qualifies(ev'.hand, ev'.confidence)
     /\ ev'.label = last_announced_sign
     /\ Len(stability_buffer) = stability_frames
     /\ AllEqual(stability_buffer, last_announced_sign)) =>
        /\ ev'.gate
        /\ IF ev'.time - last_announcement_time > cooldown_seconds
           THEN /\ ev'.spoke = last_announced_sign
                /\ last_announcement_time' = ev'.time
                /\ last_announced_sign' = last_announced_sign
           ELSE /\ ev'.spoke = None
                /\ UNCHANGED <<stability_buffer, last_announced_sign,
                               last_announcement_time>>

C12_HeldSignAnnouncedAgain ==
    /\ [][C12_HeldStep]_vars
    /\ <>(ev.op = "frame" /\ ev.spoke # None /\ ev.prev_adjacent)

\* the held sign is announced again after the gate suppressed it on a full window
C12_Witness ==
    /\ ev.op = "frame" /\ ev.spoke # None /\ ev.prev_adjacent
    /\ ev.prior_sign = ev.spoke
    /\ cooldown_seconds >= stability_frames
    /\ ev.time - ev.prior_time > cooldown_seconds

\* the call has returned for a vector of the right length
NormalizedWellFormed == pc = "normalized" /\ Len(raw) = VectorLen

\* slice h (0 or 1) of a vector of VectorLen values
HandSlice(v, h) == SubSeq(v, h * HandLen + 1, (h + 1) * HandLen)

AllZero(s) == \A k \in 1..Len(s) : s[k] = 0

\* C15 as stated: a vector whose length is not that of two hands is rejected.
C15_MalformedRejected ==
    (pc = "normalized" /\ Len(raw) # VectorLen) => normalized.status = "error"

\* the reference operator of the specification, value by value
Reference(v) ==
    [k \in 1..VectorLen |->
        LET base == ((k - 1) \div HandLen) * HandLen
            coordinate == (k - 1) % 3
        IN  IF \E j \in (base + 1)..(base + HandLen) : v[j] # 0
            THEN v[k] - v[base + 1 + coordinate]
            ELSE v[k]]

\* v with the slice of hand h replaced by zeros
WithoutHand(v, h) ==
    [k \in 1..VectorLen |-> IF (k - 1) \div HandLen = h THEN 0 ELSE v[k]]

\* C16: on a vector of VectorLen values normalize_landmarks returns the value
\* of the reference operator, and the output slice of a hand is the same when
\* the other hand's slice is replaced by zeros.
C16_EqualsReference ==
    NormalizedWellFormed =>
        /\ normalized = Returned(Reference(raw))
        /\ \A h \in 0..1 :
               HandSlice(normalized.value, h) =
                   HandSlice(normalize_landmarks(WithoutHand(raw, 1 - h)).value, h)

\* both hands present, with landmarks away from the wrist
C16_Witness ==
    /\ NormalizedWellFormed
    /\ \A h \in 0..1 : AnyNonZero(HandSlice(raw, h))
    /\ normalized.value # raw

\* C17: after the call the wrist of every present hand is (0,0,0), and a second
\* call on the result returns the result.
C17_WristZeroAndIdempotent ==
    NormalizedWellFormed =>
        /\ \A h \in 0..1 :
               AnyNonZero(HandSlice(raw, h)) =>
                   SubSeq(HandSlice(normalized.value, h), 1, 3) = <<0, 0, 0>>
        /\ normalize_landmarks(normalized.value) = normalized

\* a present hand whose wrist was not at the origin
C17_Witness ==
    /\ NormalizedWellFormed
    /\ \E h \in 0..1 :
           /\ SubSeq(HandSlice(raw, h), 1, 3) = <<1, 1, 1>>
           /\ SubSeq(HandSlice(normalized.value, h), 1, 3) = <<0, 0, 0>>
           /\ AnyNonZero(HandSlice(normalized.value, h))

\* C18: a hand slice that is all zero in the argument is all zero in the result.
C18_AbsentHandStaysZero ==
    NormalizedWellFormed =>
        \A h \in 0..1 :
            AllZero(HandSlice(raw, h)) =>
                /\ normalized.status = "ok"
                /\ AllZero(HandSlice(normalized.value, h))

\* one hand absent, the other present with a wrist away from the origin
C18_Witness ==
    /\ NormalizedWellFormed
    /\ \E h \in 0..1 :
           /\ AllZero(HandSlice(raw, h))
           /\ AllZero(HandSlice(normalized.value, h))
           /\ SubSeq(HandSlice(raw, 1 - h), 1, 3) = <<1, 1, 1>>
           /\ HandSlice(normalized.value, 1 - h) # HandSlice(raw, 1 - h)

\* v with the offset d added to every landmark of hand h
Translated(v, h, d) ==
    [k \in 1..VectorLen |->
        IF (k - 1) \div HandLen = h THEN v[k] + d[((k - 1) % 3) + 1] ELSE v[k]]

Offsets == {<<dx, dy, dz>> : dx \in {0 - 1, 0, 1}, dy \in {0 - 1, 0, 1}, dz \in {0 - 1, 0, 1}}

\* C19: adding one offset to every landmark of a hand does not change the
\* result for that hand.
C19_TranslationInvariant ==
    NormalizedWellFormed =>
        \A h \in 0..1 : \A d \in Offsets :
            LET moved == normalize_landmarks(Translated(raw, h, d))
            IN  /\ moved.status = "ok"
                /\ HandSlice(moved.value, h) = HandSlice(normalized.value, h)

\* a present hand with landmarks away from its wrist
C19_Witness ==
    /\ NormalizedWellFormed
    /\ \E h \in 0..1 :
           /\ AnyNonZero(HandSlice(normalized.value, h))
           /\ HandSlice(normalize_landmarks(Translated(raw, h, <<1, 0 - 1, 1>>)).value, h)
                  = HandSlice(normalized.value, h)

\* every landmark of the slice is at the wrist
AllAtWrist(s) == \A k \in 1..Len(s) : s[k] = s[((k - 1) % 3) + 1]

\* C20 as stated: the result for a present hand is never all zero.
C20_Original ==
    NormalizedWellFormed =>
        \A h \in 0..1 :
            AnyNonZero(HandSlice(raw, h)) => ~AllZero(HandSlice(normalized.value, h))

\* C20: the result for a present hand is all zero exactly when every landmark
\* of the hand is at its wrist.
C20_ZeroIffAllAtWrist ==
    NormalizedWellFormed =>
        \A h \in 0..1 :
            AnyNonZero(HandSlice(raw, h)) =>
                (AllZero(HandSlice(normalized.value, h)) <=> AllAtWrist(HandSlice(raw, h)))

\* a present hand with every landmark at the wrist, normalized to zeros
C20_Witness ==
    /\ NormalizedWellFormed
    /\ \E h \in 0..1 :
           /\ AnyNonZero(HandSlice(raw, h))
           /\ AllAtWrist(HandSlice(raw, h))
           /\ AllZero(HandSlice(normalized.value, h))

\* C21: on a vector of VectorLen values the call returns, its value is a
\* vector of VectorLen values, and the array the caller passed holds the values
\* it held before the call.
C21_ReturnsNewVector ==
    NormalizedWellFormed =>
        /\ normalized.status = "ok"
        /\ Len(normalized.value) = VectorLen
        /\ caller_array = raw

\* the call returned a vector that differs from its argument
C21_Witness ==
    /\ NormalizedWellFormed
    /\ normalized.status = "ok"
    /\ normalized.value # raw
    /\ caller_array = raw

\* the vector of the first hand and, if there is one, the second, zeros otherwise
FirstTwoHands(hands) ==
    hands[1] \o (IF Len(hands) >= 2 THEN hands[2] ELSE [j \in 1..HandLen |-> 0])

\* C22: with no hand detected the extraction returns the 'no hands' value; with
\* one or more it returns a vector of VectorLen values, computed from the first
\* two hands only, whose second slice is all zero when one hand was detected.
C22_ExtractedLength ==
    pc = "extracted" =>
        IF Len(detected) = 0
        THEN extracted = NoHands
        ELSE /\ extracted.status = "ok"
             /\ Len(extracted.value) = VectorLen
             /\ extracted = normalize_landmarks(FirstTwoHands(detected))
             /\ Len(detected) = 1 => AllZero(HandSlice(extracted.value, 1))

\* one hand with a landmark away from the wrist: the vector is padded
C22_Witness ==
    /\ pc = "extracted"
    /\ Len(detected) = 1
    /\ extracted.status = "ok"
    /\ AnyNonZero(HandSlice(extracted.value, 0))
    /\ AllZero(HandSlice(extracted.value, 1))

\* C28 as stated: below the threshold get_sign_text returns (None, 0.0), at or
\* above it (labels[argmax], confidence).
C28_SignTextAsStated ==
    pc = "sign_text_returned" =>
        LET confidence == prediction[ArgMax(prediction)]
        IN  sign_text.value = IF confidence >= confidence_threshold
                              THEN <<LabelList[ArgMax(prediction)], confidence>>
                              ELSE <<None, 0>>

\* C26: with stability_frames = 1 every frame with a hand and confidence >=
\* threshold reaches the gate, and the window holds at most one label after
\* every step.
C26_CapacityOne ==
    stability_frames = 1 =>
        /\ QualifyingFrame => ev.gate
        /\ Len(stability_buffer) <= 1
        /\ (QualifyingFrame /\ ev.spoke = None) => stability_buffer = <<ev.label>>

\* a suppressed repeat with capacity one: the window holds the one label
C26_Witness ==
    /\ stability_frames = 1
    /\ QualifyingFrame /\ ev.gate
    /\ ev.spoke = None
    /\ stability_buffer = <<ev.label>>

\* C27: the reset key leaves the window empty whatever it held, and after a
\* reset that followed an announcement the gate is reached only by a frame
\* that ends stability_frames qualifying frames with its label, all processed
\* after the reset.
C27_ResetEmptiesWindow ==
    /\ (ev.op = "key" /\ ev.key = "r") => stability_buffer = <<>>
    /\ (/\ ev.op = "frame" /\ ev.gate
        /\ ev.prior_sign = None
        /\ ev.prior_time > 0) =>
           /\ run.count >= stability_frames
           /\ Len(run.labels) = stability_frames
           /\ AllEqual(run.labels, ev.label)

\* the reset key met a window holding two labels
C27_Witness ==
    /\ ev.op = "key" /\ ev.key = "r"
    /\ Len(ev.window) = 2
    /\ AllEqual(ev.window, ev.prior_sign)
    /\ stability_buffer = <<>>

\* C29: a frame with a hand whose confidence equals the threshold has its label
\* appended to the window, which is kept unless the frame announces; a frame
\* with a hand and a confidence below the threshold leaves the window empty.
C29_ThresholdInclusive ==
    /\ (ev.op = "frame" /\ ev.hand /\ ev.confidence = confidence_threshold) =>
           /\ Len(ev.window) >= 1
           /\ ev.window[Len(ev.window)] = ev.label
           /\ ev.spoke = None => stability_buffer = ev.window
    /\ (ev.op = "frame" /\ ev.hand /\ ev.confidence >= confidence_threshold
                        /\ ev.spoke = None) => stability_buffer # <<>>
    /\ (ev.op = "frame" /\ ev.hand /\ ev.confidence < confidence_threshold) =>
           /\ stability_buffer = <<>>
           /\ ev.spoke = None

\* a frame at exactly the threshold completed a window and announced
C29_Witness ==
    /\ ev.op = "frame" /\ ev.hand
    /\ ev.confidence = confidence_threshold
    /\ stability_frames = 2
    /\ ev.window = <<ev.label, ev.label>>
    /\ ev.spoke = ev.label

\* C25 as stated: fed the same frames and clock readings, the deploy_pi.py loop has the
\* window and the announcement state of the inference.py loop after every
\* step, and its frames announce what the frames of inference.py announce.
C25_FrontEndsAgree ==
    twin.on =>
        /\ twin.buffer = stability_buffer
        /\ twin.sign = last_announced_sign
        /\ twin.time = last_announcement_time
        /\ ev.op = "frame" => twin.spoke = ev.spoke

\* C30: an announcing frame is at least stability_frames frames after the
\* announcing frame before it, and of any k consecutive frames at most
\* ceil(k / stability_frames) announce.
C30_AnnouncementsSpaced ==
    span.on =>
        /\ span.gap # 0 => span.gap >= stability_frames
        /\ span.fired * stability_frames <= span.frames + stability_frames - 1

\* two announcements in four frames with stability_frames = 3
C30_Witness ==
    /\ span.on
    /\ stability_frames = 3
    /\ span.frames = 4
    /\ span.fired = 2
    /\ span.gap = 3

\* the threads that hold the lock according to their position
InsideLock(engine) ==
    {t \in ThreadIds : engine.threads[t].pc \in {"locked", "saying", "except", "finally", "unlocking"}}

\* C23: in every state of the engine, with a thread speaking or waiting for
\* the lock or none, a speak call returns, and it leaves the lock, is_speaking
\* and the threads already alive as they are.
C23_SpeakDoesNotBlock ==
    tts.on =>
        \A text \in Labels :
            LET call == speak(tts, text)
            IN  /\ call.returns
                /\ call.engine.lock = tts.lock
                /\ call.engine.is_speaking = tts.is_speaking
                /\ \A t \in Alive(tts) : call.engine.threads[t] = tts.threads[t]

\* the loop announced, and its speak call returned, while one thread was in
\* say/runAndWait and another waited for the lock
C23_Witness ==
    /\ tts.on
    /\ ev.op = "frame" /\ ev.spoke # None
    /\ tts.last_call = [text |-> ev.spoke, started |-> FALSE, locked |-> TRUE]
    /\ \E t, u \in ThreadIds :
           /\ tts.threads[t].pc = "saying"
           /\ tts.threads[u].pc = "started"

\* C24: at most one thread is between taking and releasing the lock, it is
\* the holder of the lock, and is_speaking is true only while a thread holds
\* the lock.
C24_OneThreadInEngine ==
    tts.on =>
        /\ Cardinality(InsideLock(tts)) <= 1
        /\ InsideLock(tts) = IF tts.lock = 0 THEN {} ELSE {tts.lock}
        /\ tts.is_speaking => tts.lock # 0

\* one thread in say/runAndWait while another waits for the lock
C24_Witness ==
    /\ tts.on
    /\ tts.is_speaking
    /\ \E t, u \in ThreadIds :
           /\ tts.lock = t
           /\ tts.threads[t].pc = "saying"
           /\ tts.threads[u].pc = "started"

\* C31: the reset key clears the last announced sign and keeps the last
\* announcement time; while the last announced sign is None every frame that
\* finds the window stable announces its label and records label and time,
\* however little time has passed since the last announcement.
C31_ResetForgetsSignKeepsTime ==
    /\ (ev.op = "key" /\ ev.key = "r") =>
           /\ last_announced_sign = None
           /\ last_announcement_time = ev.prior_time
    /\ (ev.op = "frame" /\ ev.gate /\ ev.prior_sign = None) =>
           /\ ev.spoke = ev.label
           /\ last_announced_sign = ev.label
           /\ last_announcement_time = ev.time

\* after a reset the sign announced last before it was announced again at the
\* very clock reading of that announcement, inside the cooldown
C31_Witness ==
    /\ ev.op = "frame" /\ ev.spoke = ev.label
    /\ ev.prior_sign = None
    /\ last_event = ev.label
    /\ cooldown_seconds >= 1
    /\ ev.prev_same_time = ev.prior_time
    /\ ev.time = ev.prior_time

\* the texts the engine still has to say: those of the threads that have not
\* yet returned from say/runAndWait
ToSay(engine) ==
    {engine.threads[t].text :
        t \in {u \in ThreadIds : engine.threads[u].pc \in {"started", "locked", "saying"}}}

\* C32: in every state of the engine where is_speaking is true, a speak call
\* starts no thread and leaves the engine as it was, lock, is_speaking and every
\* thread with its text: the text is kept nowhere, so nothing says it later.
\* The call the loop made last, when it started no thread, was made while
\* the lock was held.
C32_BusyCallDropsText ==
    tts.on =>
        /\ tts.is_speaking =>
               \A text \in Labels :
                   LET call == speak(tts, text)
                   IN  /\ ~call.engine.last_call.started
                       /\ call.engine.threads = tts.threads
                       /\ call.engine.lock = tts.lock
                       /\ call.engine.is_speaking = tts.is_speaking
                       /\ ToSay(call.engine) = ToSay(tts)
        /\ (tts.last_call.text # None /\ ~tts.last_call.started) => tts.last_call.locked

\* the loop announced a sign while a thread was saying another: the call
\* started no thread, and the engine holds no thread with the dropped text
C32_Witness ==
    /\ tts.on /\ tts.is_speaking
    /\ ev.op = "frame" /\ ev.spoke # None
    /\ tts.last_call = [text |-> ev.spoke, started |-> FALSE, locked |-> TRUE]
    /\ Cardinality(Alive(tts)) = 1
    /\ \E t \in ThreadIds : tts.threads[t].pc = "saying"
    /\ ev.spoke \notin ToSay(tts)

\* C33 as stated: at most one speak thread is alive at any time.  speak tests
\* is_speaking, which a thread sets only after it has taken the lock and
\* clears before it ends.
C33_AtMostOneSpeakThread ==
    tts.on => Cardinality(Alive(tts)) <= 1

\* the threads between self.is_speaking = True and self.is_speaking = False
Speaking(engine) ==
    {t \in ThreadIds : engine.threads[t].pc \in {"saying", "except", "finally"}}

\* when no speak thread is alive the engine is idle and takes the next text
EngineIdleWhenNoThread ==
    (tts.on /\ Alive(tts) = {}) =>
        /\ ~tts.is_speaking
        /\ tts.lock = 0
        /\ \A text \in Labels : speak(tts, text).engine.last_call.started

\* is_speaking is true only while a thread is between setting and clearing it
SpeakingOnlyInThread ==
    tts.on => (tts.is_speaking <=> Speaking(tts) # {})

\* C34: is_speaking is true only while a thread that holds the lock is between
\* setting and clearing it, on the path where say/runAndWait raise too; with
\* no speak thread alive is_speaking is false, the lock is free and a speak
\* call starts a thread; and with the threads scheduled, is_speaking does not
\* stay true and no thread keeps the lock.
C34_EngineNotBusyForever ==
    /\ []EngineIdleWhenNoThread
    /\ []SpeakingOnlyInThread
    /\ (tts.is_speaking ~> ~tts.is_speaking)
    /\ \A t \in ThreadIds : ((tts.lock = t) ~> (tts.lock # t))

\* the thread of an earlier announcement has ended, and the loop's next
\* announcement found the engine idle and started the only thread alive
C34_Witness ==
    /\ tts.on /\ ~tts.is_speaking /\ tts.lock = 0
    /\ ev.op = "frame" /\ ev.spoke # None
    /\ ev.prior_sign # None
    /\ tts.last_call = [text |-> ev.spoke, started |-> TRUE, locked |-> FALSE]
    /\ Cardinality(Alive(tts)) = 1

\* C35: every announcing frame hands its label to speak and records label
\* and time and empties the window, whether speak started a thread or not;
\* and a frame that finds the window stable announces exactly when the
\* cooldown test on the recorded sign and time passes, whatever the engine
\* did with the text recorded.
C35_GateIgnoresEngine ==
    tts.on =>
        /\ (ev.op = "frame" /\ ev.spoke # None) =>
               /\ tts.last_call.text = ev.spoke
               /\ last_announced_sign = ev.spoke
               /\ last_announcement_time = ev.time
               /\ stability_buffer = <<>>
        /\ (ev.op = "frame" /\ ev.gate) =>
               (ev.spoke # None <=>
                    CooldownPassed(ev.label, ev.prior_sign, ev.time, ev.prior_time,
                                   cooldown_seconds))

\* a sign whose text the busy engine dropped was shown again within the
\* cooldown and suppressed
C35_Witness ==
    /\ tts.on
    /\ ev.op = "frame" /\ ev.gate /\ ev.spoke = None
    /\ ev.label = ev.prior_sign
    /\ ev.time - ev.prior_time <= cooldown_seconds
    /\ tts.last_call = [text |-> ev.label, started |-> FALSE, locked |-> TRUE]
    /\ ev.label \notin ToSay(tts)

\* the child processes of a kind that have not ended
AliveProcesses(kind) == {p \in ProcessIds : processes[kind][p] = "alive"}

\* a request to start a process of the kind arrives
StartRequest(kind) ==
    CASE kind = "inference" -> \E popen_ok \in BOOLEAN : StartInferenceCheck(popen_ok)
      [] kind = "collection" -> StartCollection
      [] kind = "training" -> StartTraining

\* the latest request was refused with success = false
RefusedWithJson(r) == r.status = 200 /\ r.success = FALSE

\* a start request that arrived while a process of its kind was alive left
\* the handler idle, started no process and left the Popen objects of the
\* globals
NothingSpawned ==
    /\ handler' = Idle
    /\ processes' = processes
    /\ inference_process' = inference_process
    /\ collection_process' = collection_process
    /\ training_process' = training_process

\* C36 as stated: of each kind at most one process started by the web app is
\* alive at any time, and every start request that arrives while a process
\* of its kind is alive is answered with success = false and starts nothing.
C36_Original ==
    /\ [](\A kind \in Kinds : Cardinality(AliveProcesses(kind)) <= 1)
    /\ [][\A kind \in Kinds :
            (StartRequest(kind) /\ AliveProcesses(kind) # {}) =>
                RefusedWithJson(response') /\ NothingSpawned]_vars

\* the latest request ended in an exception before the handler made any
\* test: request.json could not read the body (400, 415) or data.get was
\* called on a value that is not an object (500)
RefusedUnread(r) == r.op = "start_collection" /\ r.status \in {400, 415, 500}

\* C36: of each kind at most one process started by the web app is alive at
\* any time, and a start request that arrives while a process of its kind is
\* alive starts no process and leaves the Popen object of the global; it is
\* answered with success = false, except that a collection request whose
\* body is not a JSON object ends in the exception of line 343 or 344
\* instead, answered with HTTP 400, 415 or 500.
C36_OneProcessPerKind ==
    /\ [](\A kind \in Kinds : Cardinality(AliveProcesses(kind)) <= 1)
    /\ [][\A kind \in Kinds :
            (StartRequest(kind) /\ AliveProcesses(kind) # {}) =>
                /\ NothingSpawned
                /\ \/ RefusedWithJson(response')
                   \/ kind = "collection" /\ RefusedUnread(response')]_vars

\* the second collection process is alive and a request to start another one,
\* its body not JSON, ended in the BadRequest of request.json
C36_Witness ==
    /\ response = Raised("start_collection", 400, "BadRequest")
    /\ collection_process = 2
    /\ AliveProcesses("collection") = {2}
    /\ processes["collection"][1] = "exited"
    /\ AliveProcesses("inference") # {}

\* C37 as stated, its safety half: once start_inference has returned success
\* and while the process it started is alive, inference_running is true; a
\* monitor thread left over from an earlier process does not clear it.
C37_FlagFollowsProcess ==
    (AliveProcesses("inference") # {} /\ handler.op # "start_inference") =>
        app_state.inference_running

\* C38: a stop_inference request that finds no inference process alive is
\* answered with success = false and leaves app_state; so is one whose wait
\* ends with the process still alive; stop_inference writes app_state and
\* answers success only when its wait found the process ended, and then
\* inference_running is false and current_sign None.
C38_StopStep ==
    /\ StopInferenceCheck =>
           /\ app_state' = app_state
           /\ IF AliveProcesses("inference") = {}
              THEN /\ response' = Response("stop_inference", FALSE, "Inference not running")
                   /\ handler' = Idle
              ELSE /\ response' = response
                   /\ handler' = [op |-> "stop_inference", pc |-> "wait"]
    /\ StopInferenceEnd =>
           /\ response'.op = "stop_inference"
           /\ IF AliveProcesses("inference") # {}
              THEN /\ response'.success = FALSE
                   /\ app_state' = app_state
              ELSE /\ response'.success = TRUE
                   /\ app_state'.inference_running = FALSE
                   /\ app_state'.current_sign = None

C38_StopNeedsConfirmedExit == [][C38_StopStep]_vars

\* the wait of stop_inference timed out: the process is alive, the request
\* was answered with success = false and inference_running is still true
C38_Witness ==
    /\ response = Response("stop_inference", FALSE, "str(e)")
    /\ handler = Idle
    /\ AliveProcesses("inference") = {inference_process}
    /\ app_state.inference_running

====
